---- MODULE Spec2Model ----
(***************************************************************************)
(* Location privacy and proximity subsystem of the chat backend:           *)
(* LocationService (src/src/application/services/location.service.js),     *)
(* LocationRepository (src/unnamed/part_002), LocationRedis                *)
(* (src/src/domain/redis/Location.redis.js), UserRepository and the User   *)
(* model (src/unnamed/part_001).                                           *)
(*                                                                         *)
(* Coordinates are integers in micro-degrees (1e-6 degree): the offsets    *)
(* _obfuscateCoordinates adds are whole multiples of 1e-6 degree           *)
(* ((m / 10000 - 0.5) * 2 * 0.005 = (m - 5000) * 1e-6).  Floating-point    *)
(* rounding below 1e-6 degree is not modelled.  Distances are in units of  *)
(* 0.01 km (10 m), the precision calculateDistance rounds to.              *)
(***************************************************************************)
EXTENDS Integers, Sequences, FiniteSets, TLC

VARIABLES
    geo,        \* Redis geo set 'user_locations': member -> position
    meta,       \* Redis hashes 'location:<id>': id -> metadata fields
    metaTTL,    \* expiry time of the metadata keys that have a TTL
    profile,    \* MongoDB users collection: id -> privacy flag, radius, lastKnownLocation
    now,        \* the stores' clock, in seconds
    entryState, \* history of each id's Geo Index Entry: "absent"; "written" (a
                \* position is stored); "confirmed" (an updateUserLocation call
                \* of this behaviour that stored it returned success); "lapsed"
                \* (the TTL set by that call has since elapsed); "unmirrored"
                \* (the call that stored it failed at its Profile write)
    calls,      \* service calls in flight or just finished, one per request slot
    started,    \* number of service calls accepted so far
    obfIn,      \* arguments of a stand-alone _obfuscateCoordinates evaluation
    obfOut,     \* its result (empty until evaluated)
    sessions,   \* Redis hashes 'session:<id>': id -> fields and expiry time
    activeSessions, \* Redis set 'active_sessions'
    sessionOps, \* SessionRedis calls in flight or just finished, one per slot
    countdown,  \* history: id -> the time at which the TTL set by the most
                \* recent createSession / refreshSession elapses
    ended,      \* history: ids whose deleteSession completed, no createSession
                \* for the id being in flight then or started since
    channel,    \* MongoDB channels collection: the one channel document, if any
    channelOps, \* ChannelRepository calls in flight or just finished
    redisClient, \* the module variable redisClient of the database configuration
    clients,    \* the Redis clients created so far and the state of each
    connOps,    \* connectRedis / disconnectRedis calls in flight or just finished
    mongoConnection, \* the module variable mongoConnection of the database configuration
    readyState, \* mongoose.connection.readyState
    mongoOps,   \* connectDB / disconnectDB / getMongoConnection calls
    established \* history: a connectDB has resolved, and no disconnectDB or
                \* resetConnections has run since

sessionVars == <<sessions, activeSessions, sessionOps, countdown, ended>>

channelVars == <<channel, channelOps>>

mongoVars == <<mongoConnection, readyState, mongoOps, established>>

connVars == <<redisClient, clients, connOps, mongoVars>>

\* the stores and calls that the location service does not touch
otherStores == <<sessionVars, channelVars, connVars>>

vars == <<geo, meta, metaTTL, profile, now, entryState, calls, started, obfIn, obfOut,
          otherStores>>

-----------------------------------------------------------------------------
(* Coordinate obfuscation                                                  *)

\* this.obfuscationRange = 0.005 degree, in micro-degrees
obfuscationRange == 5000

\* parseInt(hash.substring(0, 8), 16): a 32-bit value, kept as its two
\* 16-bit halves [hi, lo] (value = hi * 65536 + lo)
SeedValues == [hi : 0 .. 65535, lo : 0 .. 65535]

\* offsetSeed % 10000, on the non-negative 32-bit value
\* (65536 % 10000 = 5536)
SeedMod10000(seed) == (((seed.hi % 10000) * 5536) + seed.lo) % 10000

\* offsetSeed >> 16: JavaScript converts the left operand to a signed
\* 32-bit integer first, so a seed of 2^31 or more shifts to a negative number
SeedShr16(seed) == IF seed.hi >= 32768 THEN seed.hi - 65536 ELSE seed.hi

\* JavaScript %: the result takes the sign of the dividend
JsRem(a, b) == IF a >= 0 THEN a % b ELSE 0 - ((0 - a) % b)

\* ((x / 10000) - 0.5) * 2 * obfuscationRange, in micro-degrees
OffsetOf(x) == ((x - 5000) * 2 * obfuscationRange) \div 10000

lngOffset(seed) == OffsetOf(SeedMod10000(seed))

latOffset(seed) == OffsetOf(JsRem(SeedShr16(seed), 10000))

ObfuscateWithSeed(seed, longitude, latitude) ==
    [longitude |-> longitude + lngOffset(seed),
     latitude  |-> latitude + latOffset(seed)]

Abs(x) == IF x < 0 THEN 0 - x ELSE x

-----------------------------------------------------------------------------
(* Distances                                                               *)

RECURSIVE SqrtStep(_, _, _)
SqrtStep(s, r, b) ==
    IF b = 0 THEN r
    ELSE LET t == r + b
         IN  IF t <= 46340 /\ t * t <= s
             THEN SqrtStep(s, t, b \div 2)
             ELSE SqrtStep(s, r, b \div 2)

\* integer square root of 0 <= s < 2^31
ISqrt(s) == SqrtStep(s, 0, 32768)

\* Largest coordinate difference (micro-degrees) the planar form is used for
PlanarWindow == 30000

\* Half of the Earth's circumference at R = 6371 km, in units of 0.01 km
FarDistance == 2001509

\* Angular separation of two positions in micro-degrees.  Every position of
\* the model lies within 0.02 degree of the equator, where
\* cos(lat1) * cos(lat2) = 1 to eight digits and the haversine angle
\* c = 2 * atan2(sqrt(a), sqrt(1 - a)) equals sqrt(dLat^2 + dLng^2) for the
\* separations inside PlanarWindow.
ArcMicroDeg(lng1, lat1, lng2, lat2) ==
    ISqrt((lat2 - lat1) * (lat2 - lat1) + (lng2 - lng1) * (lng2 - lng1))

InWindow(lng1, lat1, lng2, lat2) ==
    /\ Abs(lng2 - lng1) <= PlanarWindow
    /\ Abs(lat2 - lat1) <= PlanarWindow

\* LocationRedis.calculateDistance: Math.round(R * c * 100) / 100 with
\* R = 6371 km; the result is in units of 0.01 km.  One micro-degree of arc
\* is 6371 km * pi / 180 * 1e-6 = 0.011119 hundredths of a km.  Positions
\* further apart than PlanarWindow are on opposite sides of the globe in this
\* model (inputs at the antimeridian) and get the antipodal distance.
calculateDistance(lng1, lat1, lng2, lat2) ==
    IF InWindow(lng1, lat1, lng2, lat2)
    THEN (ArcMicroDeg(lng1, lat1, lng2, lat2) * 11119 + 500000) \div 1000000
    ELSE FarDistance

\* Distance in whole metres as the Profile Store's $near / $maxDistance
\* filter measures it (not rounded to 0.01 km)
MetresBetween(lng1, lat1, lng2, lat2) ==
    IF InWindow(lng1, lat1, lng2, lat2)
    THEN (ArcMicroDeg(lng1, lat1, lng2, lat2) * 11119) \div 100000
    ELSE FarDistance * 10

-----------------------------------------------------------------------------
(* The two stores and the service calls                                    *)

\* Ids with a user document, an id without one, and the two ids that
\* _validateUserId rejects: the empty string and a string of blanks
ProfileIds == {"user1", "user2", "user123"}

UnknownId == "user4"

BlankIds == {"", " "}

IdArgs == ProfileIds \cup {UnknownId} \cup BlankIds

\* First 8 hex digits of sha256('location_salt_' + userId)
offsetSeed(userId) ==
    CASE userId = "user1"   -> [hi |-> 12390, lo |-> 24499]
      [] userId = "user2"   -> [hi |-> 32656, lo |-> 48509]
      [] userId = "user123" -> [hi |-> 60164, lo |-> 50422]
      [] userId = "user4"   -> [hi |-> 13552, lo |-> 5900]
      [] userId = ""        -> [hi |-> 57672, lo |-> 52367]
      [] OTHER              -> [hi |-> 47269, lo |-> 14313]   \* " "

obfuscateCoordinates(userId, longitude, latitude) ==
    ObfuscateWithSeed(offsetSeed(userId), longitude, latitude)

\* Request slots: calls in different slots interleave at every store call
Calls == {"c1", "c2"}

\* Number of service calls accepted in one behaviour
MaxCalls == 2

\* 24 hours TTL passed by updateUserLocation
LocationTTL == 86400

\* Seconds the clock advances in one step, and the number of such steps
TickSeconds == LocationTTL \div 2

MaxTicks == 2

Put(f, k, v) == [x \in (DOMAIN f) \cup {k} |-> IF x = k THEN v ELSE f[x]]

\* variant: the key is left in place
Drop_nothing(f, k) == f

Drop(f, k) == [x \in (DOMAIN f) \ {k} |-> f[x]]


NoResult ==
    [outcome |-> "pending", success |-> FALSE, text |-> "", allowed |-> FALSE,
     users |-> <<>>, distanceKm |-> <<>>, hasLocation |-> FALSE,
     lastUpdate |-> <<>>]

IdleCall ==
    [op |-> "idle", pc |-> "idle", userId |-> "", userId2 |-> "",
     longitude |-> 0, latitude |-> 0, accuracy |-> <<>>, radiusKm |-> 0,
     limit |-> 0, settings |-> <<>>, obfuscated |-> <<>>, user |-> <<>>,
     userLocation |-> <<>>, location2 |-> <<>>, allMembers |-> <<>>,
     nearbyUsers |-> <<>>, publicUsers |-> {}, failedCall |-> "",
     interfered |-> {}, repairs |-> FALSE, ttlSeconds |-> 0,
     locationUpdates |-> <<>>, results |-> <<>>, result |-> NoResult]

\* throw new Error(text)
Thrown(call, text) ==
    [call EXCEPT !.pc = "done",
                 !.result = [NoResult EXCEPT !.outcome = "thrown", !.text = text]]

\* variant: the rejection is swallowed and the call reports success
StoreThrown_swallowed(call, failed) ==
    [call EXCEPT !.pc = "done", !.failedCall = failed,
                 !.result = [NoResult EXCEPT !.outcome = "returned",
                                             !.success = TRUE]]

\* the store client rejected the call named by failed, and the error is rethrown
StoreThrown(call, failed) ==
    [Thrown(call, "store error") EXCEPT !.failedCall = failed]

Returned(call, res) ==
    [call EXCEPT !.pc = "done", !.result = [res EXCEPT !.outcome = "returned"]]

CanStart(c) == calls[c].pc \in {"idle", "done"} /\ started < MaxCalls

At(c, op, pc) == calls[c].op = op /\ calls[c].pc = pc

\* _validateUserId (service and repository)
validateUserId(userId) ==
    IF userId \in BlankIds THEN "User ID is required" ELSE ""

\* An argument whose typeof is not 'number' (a string, null, an object).
\* Coordinates are integers here, so one value outside every range that
\* arithmetic on valid coordinates reaches stands for all of them.
NonNumeric == 999999999

\* a variant that forgets the latitude range
validateCoordinates_longitudeOnly(longitude, latitude) ==
    IF longitude = NonNumeric \/ latitude = NonNumeric
    THEN "Coordinates must be numbers"
    ELSE IF longitude < 0 - 180000000 \/ longitude > 180000000
         THEN "Invalid longitude: must be between -180 and 180"
         ELSE ""

\* _validateCoordinates (service, repositories)
validateCoordinates(longitude, latitude) ==
    IF longitude = NonNumeric \/ latitude = NonNumeric
    THEN "Coordinates must be numbers"
    ELSE IF longitude < 0 - 180000000 \/ longitude > 180000000
         THEN "Invalid longitude: must be between -180 and 180"
         ELSE IF latitude < 0 - 90000000 \/ latitude > 90000000
              THEN "Invalid latitude: must be between -90 and 90"
              ELSE ""

\* LocationRepository._validateTTL
validateTTL(ttlSeconds) ==
    IF ttlSeconds <= 0 THEN "TTL must be a positive number"
    ELSE IF ttlSeconds > 86400 * 30 THEN "TTL cannot exceed 30 days"
         ELSE ""

\* first failing check of a list of validations
FirstError(errs) ==
    IF \E i \in 1 .. Len(errs) : errs[i] # ""
    THEN errs[CHOOSE i \in 1 .. Len(errs) :
                  errs[i] # "" /\ \A j \in 1 .. (i - 1) : errs[j] = ""]
    ELSE ""

-----------------------------------------------------------------------------
(* LocationService.updateUserLocation                                      *)

\* (longitude, latitude) pairs callers pass, in micro-degrees: two ordinary
\* positions, the extreme valid longitude, and three pairs outside the
\* valid domain
CoordinateArgs ==
    { [longitude |-> 0, latitude |-> 0],
      [longitude |-> 12000, latitude |-> 0],
      [longitude |-> 180000000, latitude |-> 0],

      [longitude |-> 200000000, latitude |-> 0],
      [longitude |-> 0, latitude |-> 0 - 95000000],
      [longitude |-> NonNumeric, latitude |-> 0] }

\* accuracy arguments: null, 10, 0, -5
AccuracyArgs == { <<>>, <<10>>, <<0>>, <<0 - 5>> }


\* the argument lists of the updateUserLocation calls: every ordinary
\* position with every valid accuracy for the ids that pass validation, and
\* each out-of-the-ordinary argument (the empty id, a position at the edge
\* of or outside the domain, an invalid accuracy) with ordinary values for
\* the others
UpdateArgs ==
    {x \in [userId : {"user1", UnknownId, ""},
            position : CoordinateArgs, accuracy : AccuracyArgs] :
        LET oddId       == x.userId = ""
            oddPosition == ~ (x.position.longitude \in {0, 12000}
                                /\ x.position.latitude = 0)
            oddAccuracy == x.accuracy \notin {<<>>, <<10>>}
            baseline    == /\ x.position = [longitude |-> 0, latitude |-> 0]
                           /\ x.accuracy = <<>>
        IN  \/ ~ oddId /\ ~ oddPosition /\ ~ oddAccuracy
            \/ oddId /\ baseline
            \/ /\ x.userId = "user1"
               /\ \/ oddPosition /\ x.accuracy = <<>>
                  \/ oddAccuracy /\ x.position = [longitude |-> 0, latitude |-> 0]}

validateAccuracy(accuracy) ==
    IF accuracy # <<>> /\ accuracy[1] <= 0
    THEN "Accuracy must be a positive number"
    ELSE ""

\* History kept with a call: an updateUserLocation call that has written
\* the Geo Index Entry and not yet the Profile notes what happened to the
\* same id between its two writes: a write of another "update", a "remove",
\* or the "expiry" of the metadata key.
MarkInterfered(cs, c, ids, kind) ==
    [d \in Calls |->
        IF /\ d # c
           /\ cs[d].op = "update"
           /\ cs[d].userId \in ids
           /\ cs[d].pc \in {"hSet", "expire", "updateLocation"}
        THEN [cs[d] EXCEPT !.interfered = @ \cup {kind}]
        ELSE cs[d]]

\* History kept with a removeUserLocation call: "overlap" when an
\* updateUserLocation call for the same id is in flight at some moment of
\* the removal, "update" when one starts after the removal has completed.
UpdateInFlight(cs, userId) ==
    \E d \in Calls :
        /\ cs[d].op = "update"
        /\ cs[d].userId = userId
        /\ cs[d].pc \notin {"idle", "done"}

\* a completed removal with no location update for the id beside or after it
RemovalStands(call) ==
    /\ call.op = "remove"
    /\ call.pc = "done"
    /\ call.result.success
    /\ call.interfered = {}

\* History kept with a query call (getNearbyUsers, validateLocationAccess):
\* the ids whose removal stood when the query started and for which no
\* location update has started since.
StandingRemovals(cs) == {cs[d].userId : d \in {e \in Calls : RemovalStands(cs[e])}}

\* the histories at the start of an updateUserLocation call for userId
MarkUpdateStart(cs, userId) ==
    [d \in Calls |->
        IF cs[d].op = "remove" /\ cs[d].userId = userId
        THEN IF cs[d].pc \notin {"idle", "done"}
             THEN [cs[d] EXCEPT !.interfered = @ \cup {"overlap"}]
             ELSE IF cs[d].result.success
                  THEN [cs[d] EXCEPT !.interfered = @ \cup {"update"}]
                  ELSE cs[d]
        ELSE IF /\ cs[d].op \in {"nearby", "validate"}
                /\ cs[d].pc \notin {"idle", "done"}
             THEN [cs[d] EXCEPT !.interfered = @ \ {userId}]
             ELSE cs[d]]

\* lines 23-30: argument validation, before any store call
StartUpdate(c, userId, longitude, latitude, accuracy) ==
    /\ CanStart(c)
    /\ LET call == [IdleCall EXCEPT !.op = "update", !.userId = userId,
                        !.longitude = longitude, !.latitude = latitude,
                        !.accuracy = accuracy,
                        \* history: the call starts after a partial failure
                        !.repairs = (entryState[userId] = "unmirrored")]
           err  == FirstError(<<validateUserId(userId),
                                validateCoordinates(longitude, latitude),
                                validateAccuracy(accuracy)>>)
       IN  calls' = IF err # ""
                    THEN [calls EXCEPT ![c] = Thrown(call, err)]
                    ELSE [MarkUpdateStart(calls, userId) EXCEPT ![c] =
                            [call EXCEPT !.pc = "findById"]]
    /\ started' = started + 1
    /\ UNCHANGED <<otherStores, geo, meta, metaTTL, profile, now, entryState, obfIn, obfOut>>

\* variant: the offset is added to the position the Geo Index holds for the
\* user, when it holds one
ObfuscatedInput_fromStored(call) ==
    IF call.userId \in DOMAIN geo
    THEN obfuscateCoordinates(call.userId, geo[call.userId].longitude,
                              geo[call.userId].latitude)
    ELSE obfuscateCoordinates(call.userId, call.longitude, call.latitude)

\* line 39: this._obfuscateCoordinates(userId, longitude, latitude)
ObfuscatedInput(call) ==
    obfuscateCoordinates(call.userId, call.longitude, call.latitude)

\* variant: a document is returned for every id
findById_anyId(userId) == <<userId>>

\* userRepository.findById: the user document, or null (empty)
findById(userId) == IF userId \in DOMAIN profile THEN <<userId>> ELSE <<>>

\* lines 32-53: userRepository.findById, then obfuscation and the
\* repository's validation of the obfuscated values.  The user document is
\* only tested for existence, and the metadata object built from accuracy
\* (lines 42-46) is not passed on: from here the call keeps neither.
UpdateFindById(c, fail) ==
    /\ At(c, "update", "findById")
    /\ LET call == calls[c]
           obf  == ObfuscatedInput(call)
           err  == FirstError(<<validateUserId(call.userId),
                                validateCoordinates(obf.longitude, obf.latitude),
                                validateTTL(LocationTTL)>>)

       IN  calls' = [calls EXCEPT ![c] =
                IF fail THEN StoreThrown(call, "findById")
                ELSE IF findById(call.userId) = <<>>
                     THEN Thrown(call, "User not found")
                     ELSE IF err # "" THEN Thrown(call, err)
                          ELSE [call EXCEPT !.pc = "geoAdd", !.accuracy = <<>>,

                                            !.obfuscated = <<obf>>]]
    /\ UNCHANGED <<otherStores, geo, meta, metaTTL, profile, now, entryState, started, obfIn, obfOut>>

\* LocationRedis.addLocation: client.geoAdd
UpdateGeoAdd(c, fail) ==
    /\ At(c, "update", "geoAdd")
    /\ LET call == calls[c]
       IN  IF fail
           THEN /\ calls' = [calls EXCEPT ![c] = StoreThrown(call, "geoAdd")]
                /\ UNCHANGED <<geo, entryState>>
           ELSE /\ geo' = Put(geo, call.userId, call.obfuscated[1])
                /\ entryState' = [entryState EXCEPT ![call.userId] = "written"]
                /\ calls' = [MarkInterfered(calls, c, {call.userId}, "update")
                                EXCEPT ![c] = [call EXCEPT !.pc = "hSet"]]
    /\ UNCHANGED <<otherStores, meta, metaTTL, profile, now, started, obfIn, obfOut>>

\* the fields addLocationWithTTL writes with client.hSet
TTLMetadata(longitude, latitude) ==
    [lastUpdate |-> now, longitude |-> longitude, latitude |-> latitude]

\* LocationRedis.addLocationWithTTL: client.hSet on 'location:<id>'
UpdateHSet(c, fail) ==
    /\ At(c, "update", "hSet")
    /\ LET call == calls[c]
           obf  == call.obfuscated[1]
       IN  IF fail
           THEN /\ calls' = [calls EXCEPT ![c] = StoreThrown(call, "hSet")]
                /\ UNCHANGED meta
           ELSE /\ meta' = Put(meta, call.userId,
                               TTLMetadata(obf.longitude, obf.latitude))
                /\ calls' = [calls EXCEPT ![c] = [call EXCEPT !.pc = "expire"]]
    /\ UNCHANGED <<otherStores, geo, metaTTL, profile, now, entryState, started, obfIn, obfOut>>

\* the keys client.expire(metadataKey, ttlSeconds) gives an expiry time
ExpireKeys(userId) == IF userId \in DOMAIN meta THEN {userId} ELSE {}

\* LocationRedis.addLocationWithTTL: client.expire on the metadata key
UpdateExpire(c, fail) ==
    /\ At(c, "update", "expire")
    /\ LET call == calls[c]
       IN  IF fail
           THEN /\ calls' = [calls EXCEPT ![c] = StoreThrown(call, "expire")]
                /\ UNCHANGED metaTTL
           ELSE /\ metaTTL' = [x \in (DOMAIN metaTTL) \cup ExpireKeys(call.userId) |->
                                  IF x \in ExpireKeys(call.userId)
                                  THEN now + LocationTTL ELSE metaTTL[x]]
                /\ calls' = [calls EXCEPT ![c] =
                                [call EXCEPT !.pc = "updateLocation"]]
    /\ UNCHANGED <<otherStores, geo, meta, profile, now, entryState, started, obfIn, obfOut>>

\* variant: the profile is given the coordinates as the caller reported them
MirroredPosition_raw(call) ==
    [longitude |-> call.longitude, latitude |-> call.latitude]

\* the position userRepository.updateLocation is called with (lines 56-60)
MirroredPosition(call) == call.obfuscated[1]

\* User.updateLocation: findByIdAndUpdate of lastKnownLocation, then the
\* success result (lines 55-65)
UpdateProfileWrite(c, fail) ==
    /\ At(c, "update", "updateLocation")
    /\ LET call == calls[c]
           u    == call.userId
       IN  IF fail
           THEN /\ calls' = [calls EXCEPT ![c] = StoreThrown(call, "updateLocation")]
                /\ entryState' = IF entryState[u] = "written"
                                 THEN [entryState EXCEPT ![u] = "unmirrored"]
                                 ELSE entryState
                /\ UNCHANGED profile
           ELSE /\ profile' = IF u \in DOMAIN profile
                              THEN [profile EXCEPT ![u].lastKnownLocation =
                                        <<MirroredPosition(call)>>]
                              ELSE profile
                /\ entryState' = IF entryState[u] = "written"
                                 THEN [entryState EXCEPT ![u] = "confirmed"]
                                 ELSE entryState
                /\ calls' = [MarkInterfered(calls, c, {u}, "update") EXCEPT ![c] =
                                Returned(call, [NoResult EXCEPT
                                    !.success = TRUE,
                                    !.text = "Location updated successfully"])]
    /\ UNCHANGED <<otherStores, geo, meta, metaTTL, now, started, obfIn, obfOut>>

-----------------------------------------------------------------------------
(* LocationService.removeUserLocation                                      *)

StartRemove(c, userId) ==
    /\ CanStart(c)
    /\ LET call == [IdleCall EXCEPT !.op = "remove", !.userId = userId,
                        \* history: a location update for the id is in flight
                        !.interfered = IF UpdateInFlight(calls, userId)
                                       THEN {"overlap"} ELSE {}]
           err  == validateUserId(userId)
       IN  calls' = [calls EXCEPT ![c] =
                        IF err # "" THEN Thrown(call, err)
                        ELSE [call EXCEPT !.pc = "zRem"]]
    /\ started' = started + 1
    /\ UNCHANGED <<otherStores, geo, meta, metaTTL, profile, now, entryState, obfIn, obfOut>>

\* LocationRedis.removeLocation: client.zRem on the geo set
RemoveZRem(c, fail) ==
    /\ At(c, "remove", "zRem")
    /\ LET call == calls[c]
       IN  IF fail
           THEN /\ calls' = [calls EXCEPT ![c] = StoreThrown(call, "zRem")]
                /\ UNCHANGED <<geo, entryState>>
           ELSE /\ geo' = Drop(geo, call.userId)
                /\ entryState' = [entryState EXCEPT ![call.userId] = "absent"]
                /\ calls' = [MarkInterfered(calls, c, {call.userId}, "remove")
                                EXCEPT ![c] = [call EXCEPT !.pc = "del"]]
    /\ UNCHANGED <<otherStores, meta, metaTTL, profile, now, started, obfIn, obfOut>>

\* LocationRedis.removeLocation: client.del of the metadata key
RemoveDel(c, fail) ==
    /\ At(c, "remove", "del")
    /\ LET call == calls[c]
       IN  IF fail
           THEN /\ calls' = [calls EXCEPT ![c] = StoreThrown(call, "del")]
                /\ UNCHANGED <<meta, metaTTL>>
           ELSE /\ meta' = Drop(meta, call.userId)
                /\ metaTTL' = Drop(metaTTL, call.userId)
                /\ calls' = [MarkInterfered(calls, c, {call.userId}, "remove")
                                EXCEPT ![c] =
                                Returned(call, [NoResult EXCEPT
                                    !.success = TRUE,
                                    !.text = "Location removed successfully"])]
    /\ UNCHANGED <<otherStores, geo, profile, now, entryState, started, obfIn, obfOut>>

-----------------------------------------------------------------------------
(* TTL expiry in the Geo Index Store                                       *)

\* keys whose expiry time has been reached at time t
ExpiredAt(t) == {k \in DOMAIN metaTTL : metaTTL[k] <= t}

\* The clock advances; Redis deletes the keys whose TTL has elapsed.  Only
\* the metadata keys carry a TTL: the members of the geo set have none.
Tick ==
    /\ now < MaxTicks * TickSeconds
    /\ now' = now + TickSeconds
    /\ LET gone == ExpiredAt(now + TickSeconds)
       IN  /\ meta' = [k \in (DOMAIN meta) \ gone |-> meta[k]]
           /\ metaTTL' = [k \in (DOMAIN metaTTL) \ gone |-> metaTTL[k]]
           /\ entryState' = [u \in DOMAIN entryState |->
                                IF u \in gone /\ entryState[u] = "confirmed"
                                THEN "lapsed" ELSE entryState[u]]
           /\ calls' = MarkInterfered(calls, "", gone, "expiry")
    /\ UNCHANGED <<otherStores, geo, profile, started, obfIn, obfOut>>

-----------------------------------------------------------------------------
(* LocationService.updateLocationPrivacy                                   *)

\* privacySettings objects: each property present (one value) or absent
SettingsArgs ==
    { [isPubliclyVisible |-> <<TRUE>>,  publicRadiusKm |-> <<>>],
      [isPubliclyVisible |-> <<FALSE>>, publicRadiusKm |-> <<>>],
      [isPubliclyVisible |-> <<>>,      publicRadiusKm |-> <<1>>],
      [isPubliclyVisible |-> <<>>,      publicRadiusKm |-> <<2>>],
      [isPubliclyVisible |-> <<>>,      publicRadiusKm |-> <<2000>>],
      [isPubliclyVisible |-> <<>>,      publicRadiusKm |-> <<0>>],
      [isPubliclyVisible |-> <<>>,      publicRadiusKm |-> <<0 - 5>>],
      [isPubliclyVisible |-> <<TRUE>>,  publicRadiusKm |-> <<1000>>],
      [isPubliclyVisible |-> <<TRUE>>,  publicRadiusKm |-> <<1001>>] }

\* _validatePrivacySettings
validatePrivacySettings(settings) ==
    IF /\ settings.publicRadiusKm # <<>>
       /\ (settings.publicRadiusKm[1] < 1 \/ settings.publicRadiusKm[1] > 1000)
    THEN "Public radius must be between 1 and 1000 km"
    ELSE ""

StartPrivacy(c, userId, settings) ==
    /\ CanStart(c)
    /\ LET call == [IdleCall EXCEPT !.op = "privacy", !.userId = userId,
                                    !.settings = <<settings>>]
           err  == FirstError(<<validateUserId(userId),
                                validatePrivacySettings(settings)>>)
       IN  calls' = [calls EXCEPT ![c] =
                        IF err # "" THEN Thrown(call, err)
                        ELSE [call EXCEPT !.pc = "updatePrivacySettings"]]
    /\ started' = started + 1
    /\ UNCHANGED <<otherStores, geo, meta, metaTTL, profile, now, entryState, obfIn, obfOut>>

\* a variant that rebuilds the document and drops the stored position
ApplyPrivacy_wholeDocument(doc, settings) ==
    [isPubliclyVisible |-> IF settings.isPubliclyVisible # <<>>
                           THEN settings.isPubliclyVisible[1]
                           ELSE doc.isPubliclyVisible,
     publicRadiusKm    |-> IF settings.publicRadiusKm # <<>>
                           THEN settings.publicRadiusKm[1]
                           ELSE doc.publicRadiusKm,
     lastKnownLocation |-> <<>>]

\* UserRepository.updatePrivacySettings: only the two privacy fields are copied
ApplyPrivacy(doc, settings) ==

    [doc EXCEPT
        !.isPubliclyVisible = IF settings.isPubliclyVisible # <<>>
                              THEN settings.isPubliclyVisible[1] ELSE @,
        !.publicRadiusKm    = IF settings.publicRadiusKm # <<>>
                              THEN settings.publicRadiusKm[1] ELSE @]

PrivacyWrite(c, fail) ==
    /\ At(c, "privacy", "updatePrivacySettings")
    /\ LET call == calls[c]
           u    == call.userId
       IN  IF fail
           THEN /\ calls' = [calls EXCEPT ![c] =
                                StoreThrown(call, "updatePrivacySettings")]
                /\ UNCHANGED profile
           ELSE IF u \notin DOMAIN profile
                THEN /\ calls' = [calls EXCEPT ![c] = Thrown(call, "User not found")]
                     /\ UNCHANGED profile
                ELSE /\ profile' = [profile EXCEPT ![u] =
                                        ApplyPrivacy(@, call.settings[1])]
                     /\ calls' = [calls EXCEPT ![c] =
                            Returned(call, [NoResult EXCEPT
                                !.success = TRUE,
                                !.text = "Privacy settings updated successfully"])]
    /\ UNCHANGED <<otherStores, geo, meta, metaTTL, now, entryState, started, obfIn, obfOut>>

-----------------------------------------------------------------------------
(* AuthService.updateProfile                                               *)

\* profileData objects, restricted to the two privacy fields (a name in
\* profileData does not bear on them): each present (one value) or absent
ProfileDataArgs ==
    { [isPubliclyVisible |-> <<FALSE>>, publicRadiusKm |-> <<>>],
      [isPubliclyVisible |-> <<>>,      publicRadiusKm |-> <<1>>],
      [isPubliclyVisible |-> <<>>,      publicRadiusKm |-> <<1000>>],
      [isPubliclyVisible |-> <<TRUE>>,  publicRadiusKm |-> <<0>>],
      [isPubliclyVisible |-> <<>>,      publicRadiusKm |-> <<0 - 5>>],
      [isPubliclyVisible |-> <<TRUE>>,  publicRadiusKm |-> <<1001>>] }

\* updateProfile's radius check: updateData.publicRadiusKm && (... < 1 ||
\* ... > 1000); the value 0 is falsy and skips the range test
validateProfileData(profileData) ==
    IF /\ profileData.publicRadiusKm # <<>>
       /\ profileData.publicRadiusKm[1] # 0
       /\ (profileData.publicRadiusKm[1] < 1 \/ profileData.publicRadiusKm[1] > 1000)
    THEN "Public radius must be between 1 and 1000 km"
    ELSE ""

StartProfile(c, userId, profileData) ==
    /\ CanStart(c)
    /\ LET call == [IdleCall EXCEPT !.op = "profile", !.userId = userId,
                                    !.settings = <<profileData>>]
           err  == FirstError(<<validateUserId(userId),
                                validateProfileData(profileData)>>)
       IN  calls' = [calls EXCEPT ![c] =
                        IF err # "" THEN Thrown(call, err)
                        ELSE [call EXCEPT !.pc = "updateById"]]
    /\ started' = started + 1
    /\ UNCHANGED <<otherStores, geo, meta, metaTTL, profile, now, entryState, obfIn, obfOut>>

\* variant: the update is written without the schema's validators
schemaValidate_off(updateData) == ""

\* userSchema.publicRadiusKm min / max, applied to the fields of an update
\* by findByIdAndUpdate(..., { runValidators: true })
schemaValidate(updateData) ==
    IF updateData.publicRadiusKm = <<>> THEN ""
    ELSE IF updateData.publicRadiusKm[1] < 1
         THEN "Public radius must be at least 1 km"
         ELSE IF updateData.publicRadiusKm[1] > 1000
              THEN "Public radius cannot exceed 1000 km"
              ELSE ""

\* UserRepository.updateById: User.findByIdAndUpdate with runValidators; a
\* validation error rejects the update before it is sent
ProfileWrite(c, fail) ==
    /\ At(c, "profile", "updateById")
    /\ LET call == calls[c]
           u    == call.userId
           err  == schemaValidate(call.settings[1])
       IN  IF fail
           THEN /\ calls' = [calls EXCEPT ![c] = StoreThrown(call, "updateById")]
                /\ UNCHANGED profile
           ELSE IF err # ""
                THEN /\ calls' = [calls EXCEPT ![c] = Thrown(call, err)]
                     /\ UNCHANGED profile
                ELSE IF u \notin DOMAIN profile
                     THEN /\ calls' = [calls EXCEPT ![c] =
                                          Thrown(call, "User not found")]
                          /\ UNCHANGED profile
                     ELSE /\ profile' = [profile EXCEPT ![u] =
                                            ApplyPrivacy(@, call.settings[1])]
                          /\ calls' = [calls EXCEPT ![c] =
                                Returned(call, [NoResult EXCEPT
                                    !.success = TRUE,
                                    !.text = "Profile updated successfully"])]
    /\ UNCHANGED <<otherStores, geo, meta, metaTTL, now, entryState, started, obfIn, obfOut>>

-----------------------------------------------------------------------------
(* LocationRedis.getLocation                                               *)


\* client.geoPos(geoKey, userId): the member's position, or nothing
geoPos(userId) == IF userId \in DOMAIN geo THEN <<geo[userId]>> ELSE <<>>

\* variant: a member without position is reported at the origin
getLocation_origin(userId, fail) ==
    IF fail THEN <<>>
    ELSE IF userId \in DOMAIN geo THEN <<geo[userId]>>
         ELSE <<[longitude |-> 0, latitude |-> 0]>>

\* getLocation: the catch block turns a rejected geoPos into null
getLocation(userId, fail) == IF fail THEN <<>> ELSE geoPos(userId)


\* the client call of this step that was rejected, remembered for the call
NoteFailure(call, fail, name) ==
    IF fail /\ call.failedCall = "" THEN [call EXCEPT !.failedCall = name] ELSE call

-----------------------------------------------------------------------------
(* LocationService.validateLocationAccess and getDistanceBetweenUsers      *)

\* variant: no short cut for a user's own location
OwnAccess_never(requestingUserId, targetUserId) == FALSE

\* line 241: a user may always read their own location
OwnAccess(requestingUserId, targetUserId) == requestingUserId = targetUserId

StartValidate(c, requestingUserId, targetUserId) ==
    /\ CanStart(c)
    /\ LET call == [IdleCall EXCEPT !.op = "validate",
                        !.userId = requestingUserId, !.userId2 = targetUserId,
                        \* history: the removals that stand at the start
                        !.interfered = StandingRemovals(calls)]
           err  == FirstError(<<validateUserId(requestingUserId),
                                validateUserId(targetUserId)>>)
       IN  calls' = [calls EXCEPT ![c] =
                IF err # "" THEN Thrown(call, err)
                ELSE IF OwnAccess(requestingUserId, targetUserId)
                     THEN Returned(call, [NoResult EXCEPT !.allowed = TRUE,
                                            !.text = "Own location access"])
                     ELSE [call EXCEPT !.pc = "findById"]]
    /\ started' = started + 1
    /\ UNCHANGED <<otherStores, geo, meta, metaTTL, profile, now, entryState, obfIn, obfOut>>

\* lines 247-262: the target's profile decides before any position is read
ProfileVerdict(targetUser) ==
    IF targetUser = <<>> THEN "Target user not found"
    ELSE IF ~ targetUser[1].isPubliclyVisible THEN "User location is private"
         ELSE ""

\* variant: the requester's profile decides
AccessSubject_requester(call) == call.userId

\* line 248: the id whose profile decides
AccessSubject(call) == call.userId2

ValidateFindById(c, fail) ==
    /\ At(c, "validate", "findById")
    /\ LET call   == calls[c]
           target == IF AccessSubject(call) \in DOMAIN profile
                     THEN <<profile[AccessSubject(call)]>> ELSE <<>>
           seen   == [call EXCEPT !.user = target]
       IN  calls' = [calls EXCEPT ![c] =
                IF fail THEN StoreThrown(call, "findById")
                ELSE IF ProfileVerdict(target) # ""
                     THEN Returned(seen, [NoResult EXCEPT
                                            !.text = ProfileVerdict(target)])
                     ELSE [seen EXCEPT !.pc = "geoPos1"]]
    /\ UNCHANGED <<otherStores, geo, meta, metaTTL, profile, now, entryState, started, obfIn, obfOut>>

StartDistance(c, userId1, userId2) ==
    /\ CanStart(c)
    /\ LET call == [IdleCall EXCEPT !.op = "distance",
                        !.userId = userId1, !.userId2 = userId2]
       IN  calls' = [calls EXCEPT ![c] =
                IF userId1 = "" \/ userId2 = ""   \* !userId1 || !userId2
                THEN Thrown(call, "Both user IDs are required")
                ELSE [call EXCEPT !.pc = "geoPos1"]]
    /\ started' = started + 1
    /\ UNCHANGED <<otherStores, geo, meta, metaTTL, profile, now, entryState, obfIn, obfOut>>

\* LocationRedis.getDistanceBetweenUsers: getLocation(userId1)
DistanceGeoPos1(c, fail) ==
    /\ calls[c].op \in {"validate", "distance"}
    /\ calls[c].pc = "geoPos1"
    /\ calls' = [calls EXCEPT ![c] =
                    [NoteFailure(@, fail, "geoPos") EXCEPT
                        !.userLocation = getLocation(calls[c].userId, fail),
                        !.pc = "geoPos2"]]
    /\ UNCHANGED <<otherStores, geo, meta, metaTTL, profile, now, entryState, started, obfIn, obfOut>>

\* LocationRedis.getDistanceBetweenUsers: null when a location is missing
distanceBetween(location1, location2) ==
    IF location1 = <<>> \/ location2 = <<>> THEN <<>>
    ELSE <<calculateDistance(location1[1].longitude, location1[1].latitude,
                             location2[1].longitude, location2[1].latitude)>>

\* variant: a missing position is reported as being outside the radius
AccessResult_radiusFirst(targetUser, distance) ==
    IF distance = <<>> \/ distance[1] > targetUser.publicRadiusKm * 100
    THEN [NoResult EXCEPT !.text = "Outside public radius"]
    ELSE [NoResult EXCEPT !.allowed = TRUE, !.text = "Access granted"]

\* lines 270-287: distance is in 0.01 km, publicRadiusKm in km
AccessResult(targetUser, distance) ==
    IF distance = <<>>
    THEN [NoResult EXCEPT !.text = "Location data not available"]
    ELSE IF distance[1] > targetUser.publicRadiusKm * 100
         THEN [NoResult EXCEPT !.text = "Outside public radius"]
         ELSE [NoResult EXCEPT !.allowed = TRUE, !.text = "Access granted"]

\* variant: a missing position is reported as distance 0
DistanceResult_zeroWhenMissing(distance) ==
    IF distance = <<>>
    THEN [NoResult EXCEPT !.success = TRUE, !.distanceKm = <<0>>]
    ELSE [NoResult EXCEPT !.success = TRUE, !.distanceKm = distance]

\* lines 155-166
DistanceResult(distance) ==

    IF distance = <<>>
    THEN [NoResult EXCEPT !.text = "One or both users do not have location data"]
    ELSE [NoResult EXCEPT !.success = TRUE, !.distanceKm = distance]

\* LocationRedis.getDistanceBetweenUsers: getLocation(userId2), then the
\* distance and the caller's result
DistanceGeoPos2(c, fail) ==
    /\ calls[c].op \in {"validate", "distance"}
    /\ calls[c].pc = "geoPos2"
    /\ LET call == [NoteFailure(calls[c], fail, "geoPos") EXCEPT
                        !.location2 = getLocation(calls[c].userId2, fail)]
           dist == distanceBetween(call.userLocation, call.location2)
       IN  calls' = [calls EXCEPT ![c] =
                IF call.op = "validate"
                THEN Returned(call, AccessResult(call.user[1], dist))
                ELSE Returned(call, DistanceResult(dist))]
    /\ UNCHANGED <<otherStores, geo, meta, metaTTL, profile, now, entryState, started, obfIn, obfOut>>

-----------------------------------------------------------------------------
(* LocationService.getNearbyUsers                                          *)

\* The radiusKm argument is kept in 0.01 km, like distances, so that radii
\* below one kilometre are inputs: 0, 0.5, 1, 3 and 1001 km
RadiusArgs == {0, 50, 100, 300, 100100}

LimitArgs == {0, 1, 2, 1001}

\* LocationService._validateRadius
validateRadius(radiusKm) ==
    IF radiusKm < 1 * 100 \/ radiusKm > 1000 * 100
    THEN "Radius must be between 1 and 1000 km" ELSE ""

\* line 77
validateLimit(limit) ==
    IF limit <= 0 \/ limit > 1000
    THEN "Limit must be between 1 and 1000" ELSE ""

\* LocationRepository._validateRadius and _validateLimit
repoValidateRadius(radiusKm) ==
    IF radiusKm <= 0 THEN "Radius must be a positive number"
    ELSE IF radiusKm > 1000 * 100 THEN "Radius cannot exceed 1000 km" ELSE ""

repoValidateLimit(limit) ==
    IF limit <= 0 THEN "Limit must be a positive number"
    ELSE IF limit > 1000 THEN "Limit cannot exceed 1000" ELSE ""

StartNearby(c, userId, radiusKm, limit) ==
    /\ CanStart(c)
    /\ LET call == [IdleCall EXCEPT !.op = "nearby", !.userId = userId,
                        !.radiusKm = radiusKm, !.limit = limit,
                        \* history: the removals that stand at the start
                        !.interfered = StandingRemovals(calls)]

           err  == FirstError(<<validateUserId(userId), validateRadius(radiusKm),
                                validateLimit(limit)>>)
       IN  calls' = [calls EXCEPT ![c] =
                        IF err # "" THEN Thrown(call, err)
                        ELSE [call EXCEPT !.pc = "findById"]]
    /\ started' = started + 1
    /\ UNCHANGED <<otherStores, geo, meta, metaTTL, profile, now, entryState, obfIn, obfOut>>

\* lines 81-85
NearbyFindById(c, fail) ==
    /\ At(c, "nearby", "findById")
    /\ LET call == calls[c]
       IN  calls' = [calls EXCEPT ![c] =
                IF fail THEN StoreThrown(call, "findById")
                ELSE IF call.userId \notin DOMAIN profile
                     THEN Thrown(call, "User not found")
                     ELSE [call EXCEPT !.user = <<profile[call.userId]>>,
                                       !.pc = "getUserLocation"]]
    /\ UNCHANGED <<otherStores, geo, meta, metaTTL, profile, now, entryState, started, obfIn, obfOut>>

\* lines 87-100: the requester's position, then the repository's validation
\* of the arguments of findNearbyUsers
NearbyGetUserLocation(c, fail) ==
    /\ At(c, "nearby", "getUserLocation")
    /\ LET call == [NoteFailure(calls[c], fail, "geoPos") EXCEPT
                        !.userLocation = getLocation(calls[c].userId, fail)]
           loc  == call.userLocation
           err  == FirstError(<<validateCoordinates(loc[1].longitude, loc[1].latitude),
                                repoValidateRadius(call.radiusKm),
                                repoValidateLimit(call.limit)>>)
       IN  calls' = [calls EXCEPT ![c] =
                IF loc = <<>> THEN Thrown(call, "User location not found")
                ELSE IF err # "" THEN Thrown(call, err)
                     ELSE [call EXCEPT !.pc = "zRange"]]
    /\ UNCHANGED <<otherStores, geo, meta, metaTTL, profile, now, entryState, started, obfIn, obfOut>>

\* sequences that list every element of the set S once
Orderings(S) ==
    {s \in [1 .. Cardinality(S) -> S] : \A x \in S : \E i \in DOMAIN s : s[i] = x}

\* client.zRange(geoKey, 0, -1): all members, in the order of their scores
MemberOrder == <<"user1", "user2", "user123", "user4">>

zRange ==
    SelectSeq(MemberOrder, LAMBDA m : m \in DOMAIN geo)

\* variant: the candidates stay in the order of the scan
SortedByDistance_scanOrder(found) == {found}

\* arrangements of the scanned candidates by ascending distance (the order

\* among equal distances depends on the order of the scan)
SortedByDistance(found) ==
    {s \in Orderings({found[i] : i \in DOMAIN found}) :
        \A i \in 1 .. (Len(s) - 1) : s[i].distance <= s[i + 1].distance}

\* .slice(0, limit)
Slice(s, limit) == SubSeq(s, 1, IF Len(s) < limit THEN Len(s) ELSE limit)

\* name and email of a user document (set at registration, never changed by
\* the location service)
UserName(userId) == <<"name", userId>>

UserEmail(userId) == <<"email", userId>>

\* a document as the profile query returns it:
\* .select('name email lastKnownLocation createdAt'), with _id
SelectedDocument(userId) ==
    [_id |-> userId, name |-> UserName(userId), email |-> UserEmail(userId),
     lastKnownLocation |-> profile[userId].lastKnownLocation, createdAt |-> 0]

\* variant: the entry passes the document's position on
Combine_withLocation(nearbyUsersRedis, publicUsers) ==
    LET kept == SelectSeq(nearbyUsersRedis, LAMBDA r : r.member \in publicUsers)
    IN  [i \in DOMAIN kept |->
            LET mongoUser == SelectedDocument(kept[i].member)
            IN  [userId |-> mongoUser._id, name |-> mongoUser.name,
                 email |-> mongoUser.email, distanceKm |-> kept[i].distance,
                 lastKnownLocation |-> mongoUser.lastKnownLocation]]

\* lines 119-134: the candidates of the geo scan that the profile query
\* returned, with the fields pushed for each: the document's _id, name and
\* email and the scan's distance in 0.01 km
Combine(nearbyUsersRedis, publicUsers) ==
    LET kept == SelectSeq(nearbyUsersRedis, LAMBDA r : r.member \in publicUsers)
    IN  [i \in DOMAIN kept |->
            LET mongoUser == SelectedDocument(kept[i].member)
            IN  [userId |-> mongoUser._id, name |-> mongoUser.name,
                 email |-> mongoUser.email, distanceKm |-> kept[i].distance]]


NearbyEmpty == [NoResult EXCEPT !.success = TRUE]

\* LocationRedis.getNearbyUsers: what follows the last getLocation of the
\* scan (sort, slice) and lines 102-108 of the service
AfterScan(call, found) ==
    { IF Slice(sorted, call.limit) = <<>>
      THEN Returned([call EXCEPT !.allMembers = <<>>, !.nearbyUsers = sorted],
                    NearbyEmpty)
      ELSE [call EXCEPT !.allMembers = <<>>, !.nearbyUsers = sorted,
                        !.pc = "findNearbyPublicUsers"]
      : sorted \in SortedByDistance(found) }

\* variant: no excludeUserId is passed (null)
ExcludeUserId_none(call) == ""

\* the excludeUserId argument getNearbyUsers passes to the geo scan (line 98)
\* and to the profile query (line 115): the requester
ExcludeUserId(call) == call.userId

\* LocationRedis.getNearbyUsers: client.zRange; a rejected call is caught and
\* an empty list returned.  Lines 112-115 skip the excluded member.

NearbyZRange(c, fail) ==
    /\ At(c, "nearby", "zRange")
    /\ LET call    == NoteFailure(calls[c], fail, "zRange")
           members == SelectSeq(zRange, LAMBDA m : m # ExcludeUserId(call))
       IN  IF fail
           THEN calls' = [calls EXCEPT ![c] = Returned(call, NearbyEmpty)]
           ELSE IF members = <<>>
                THEN \E next \in AfterScan(call, <<>>) :
                        calls' = [calls EXCEPT ![c] = next]
                ELSE calls' = [calls EXCEPT ![c] =
                        [call EXCEPT !.allMembers = members, !.pc = "scan"]]
    /\ UNCHANGED <<otherStores, geo, meta, metaTTL, profile, now, entryState, started, obfIn, obfOut>>

\* lines 117-132 of LocationRedis.getNearbyUsers: one candidate of the scan.
\* distance and radiusKm are kept in 0.01 km; distanceMeters <= radiusMeters
\* compares distance * 1000 with radiusKm * 1000, in metres
WithinRadius(distance, radiusKm) == distance * 10 <= radiusKm * 10

ScanMember(call, member, fail) ==
    LET here == call.userLocation[1]
        loc  == getLocation(member, fail)
        dist == calculateDistance(here.longitude, here.latitude,
                                  loc[1].longitude, loc[1].latitude)
    IN  IF loc # <<>> /\ WithinRadius(dist, call.radiusKm)
        THEN Append(call.nearbyUsers, [member |-> member, distance |-> dist])
        ELSE call.nearbyUsers

NearbyScan(c, fail) ==
    /\ At(c, "nearby", "scan")
    /\ LET call  == NoteFailure(calls[c], fail, "geoPos")
           found == ScanMember(call, Head(call.allMembers), fail)
           rest  == Tail(call.allMembers)
       IN  IF rest = <<>>
           THEN \E next \in AfterScan(call, found) :
                    calls' = [calls EXCEPT ![c] = next]
           ELSE calls' = [calls EXCEPT ![c] =
                    [call EXCEPT !.allMembers = rest, !.nearbyUsers = found]]
    /\ UNCHANGED <<otherStores, geo, meta, metaTTL, profile, now, entryState, started, obfIn, obfOut>>

\* variant: the profile query does not filter on isPubliclyVisible
findNearbyPublicUsers_anyVisibility(longitude, latitude, radiusKm, excludeUserId) ==
    {u \in DOMAIN profile :
        /\ u # excludeUserId
        /\ profile[u].lastKnownLocation # <<>>
        /\ MetresBetween(longitude, latitude,
                         profile[u].lastKnownLocation[1].longitude,
                         profile[u].lastKnownLocation[1].latitude)
              <= radiusKm * 10}

\* User.findNearbyPublicUsers: public users whose lastKnownLocation is
\* within radiusKm * 1000 metres (radiusKm is kept in 0.01 km), the
\* requester excluded
findNearbyPublicUsers(longitude, latitude, radiusKm, excludeUserId) ==
    {u \in DOMAIN profile :
        /\ u # excludeUserId
        /\ profile[u].isPubliclyVisible
        /\ profile[u].lastKnownLocation # <<>>
        /\ MetresBetween(longitude, latitude,
                         profile[u].lastKnownLocation[1].longitude,
                         profile[u].lastKnownLocation[1].latitude)
              <= radiusKm * 10}


\* lines 110-140
NearbyFindPublic(c, fail) ==
    /\ At(c, "nearby", "findNearbyPublicUsers")
    /\ LET call   == calls[c]
           here   == call.userLocation[1]
           public == findNearbyPublicUsers(here.longitude, here.latitude,
                                           call.radiusKm, ExcludeUserId(call))
           redis  == Slice(call.nearbyUsers, call.limit)
       IN  calls' = [calls EXCEPT ![c] =
                IF fail THEN StoreThrown(call, "findNearbyPublicUsers")
                ELSE Returned([call EXCEPT !.publicUsers = public],
                              [NoResult EXCEPT !.success = TRUE,
                                    !.users = Combine(redis, public)])]
    /\ UNCHANGED <<otherStores, geo, meta, metaTTL, profile, now, entryState, started, obfIn, obfOut>>

-----------------------------------------------------------------------------
(* LocationService.getUserLocationStatus                                   *)

StartStatus(c, userId) ==
    /\ CanStart(c)
    /\ LET call == [IdleCall EXCEPT !.op = "status", !.userId = userId]
           err  == validateUserId(userId)
       IN  calls' = [calls EXCEPT ![c] =
                        IF err # "" THEN Thrown(call, err)
                        ELSE [call EXCEPT !.pc = "findById"]]
    /\ started' = started + 1
    /\ UNCHANGED <<otherStores, geo, meta, metaTTL, profile, now, entryState, obfIn, obfOut>>

StatusFindById(c, fail) ==
    /\ At(c, "status", "findById")
    /\ LET call == calls[c]
       IN  calls' = [calls EXCEPT ![c] =
                IF fail THEN StoreThrown(call, "findById")
                ELSE IF call.userId \notin DOMAIN profile
                     THEN Thrown(call, "User not found")
                     ELSE [call EXCEPT !.user = <<profile[call.userId]>>,
                                       !.pc = "getUserLocation"]]
    /\ UNCHANGED <<otherStores, geo, meta, metaTTL, profile, now, entryState, started, obfIn, obfOut>>

StatusGetLocation(c, fail) ==
    /\ At(c, "status", "getUserLocation")
    /\ calls' = [calls EXCEPT ![c] =
                    [NoteFailure(@, fail, "geoPos") EXCEPT
                        !.userLocation = getLocation(calls[c].userId, fail),
                        !.pc = "getUserLocationMetadata"]]
    /\ UNCHANGED <<otherStores, geo, meta, metaTTL, profile, now, entryState, started, obfIn, obfOut>>

\* LocationRedis.getLocationMetadata: hGetAll, {} when the call is rejected;
\* the service reads metadata.lastUpdate || null
lastUpdateOf(userId, fail) ==
    IF fail \/ userId \notin DOMAIN meta THEN <<>> ELSE <<meta[userId].lastUpdate>>

StatusGetMetadata(c, fail) ==
    /\ At(c, "status", "getUserLocationMetadata")
    /\ LET call == NoteFailure(calls[c], fail, "hGetAll")
       IN  calls' = [calls EXCEPT ![c] =
                Returned(call, [NoResult EXCEPT
                    !.hasLocation = (call.userLocation # <<>>),
                    !.lastUpdate = lastUpdateOf(call.userId, fail)])]
    /\ UNCHANGED <<otherStores, geo, meta, metaTTL, profile, now, entryState, started, obfIn, obfOut>>

-----------------------------------------------------------------------------
(* SessionRedis: one hash 'session:<id>' per user with an optional expiry  *)
(* time, and the set 'active_sessions'.  Every awaited client call is one  *)
(* step.                                                                    *)

SessionUsers == {"user1"}

\* ttlSeconds arguments (86400 is the default)
TtlArgs == {TickSeconds, 2 * TickSeconds}

SessionOpNames ==
    {"createSession", "updateSession", "refreshSession", "setSessionField",
     "deleteSession", "isSessionValid"}

\* decoded, user and isSessionValid are the locals of verifyToken (empty
\* until assigned)
IdleSessionOp ==
    [op |-> "idle", pc |-> "idle", userId |-> "", ttl |-> 0, result |-> "pending",
     decoded |-> <<>>, user |-> <<>>, isSessionValid |-> <<>>]

SessionsIdle ==
    /\ sessions = [u \in {} |-> 0]
    /\ activeSessions = {}
    /\ sessionOps = [c \in Calls |-> IdleSessionOp]
    /\ countdown = [u \in SessionUsers |-> <<>>]
    /\ ended = {}

SessionInFlight(c) == sessionOps[c].pc \notin {"idle", "done"}

SessionAt(c, pc) == sessionOps[c].pc = pc

\* some call of one of the operations in ops is in flight for the user
OpInFlightFor(userId, ops) ==
    \E c \in Calls : /\ SessionInFlight(c)
                     /\ sessionOps[c].userId = userId
                     /\ sessionOps[c].op \in ops

\* what client.exists(sessionKey) returns in this state
SessionKeyExists(userId) == userId \in DOMAIN sessions

SessionDone(call, result) == [call EXCEPT !.pc = "done", !.result = result]

\* the first client call of each operation
FirstSessionCall(op) ==
    CASE op = "createSession" -> "hSet"
      [] op = "deleteSession" -> "sRem"
      [] OTHER                -> "exists"

\* the hash fields each operation writes with hSet
FieldsWritten(op) ==
    CASE op = "createSession"   -> {"data", "createdAt", "lastActivity"}
      [] op = "updateSession"   -> {"data", "lastActivity"}
      [] op = "refreshSession"  -> {"lastActivity"}
      [] OTHER                  -> {"field"}

StartSessionOp(c, op, userId, ttl) ==
    /\ ~ SessionInFlight(c)
    /\ c = "c2" => SessionInFlight("c1")
    /\ started < MaxCalls
    /\ sessionOps' = [sessionOps EXCEPT ![c] =
            [IdleSessionOp EXCEPT !.op = op, !.pc = FirstSessionCall(op),
                                  !.userId = userId, !.ttl = ttl]]
    /\ ended' = IF op = "createSession" THEN ended \ {userId} ELSE ended
    /\ started' = started + 1
    /\ UNCHANGED <<channelVars, connVars, sessions, activeSessions, countdown, geo, meta, metaTTL,
                   profile, now, entryState, calls, obfIn, obfOut>>

\* client.exists(sessionKey): isSessionValid returns exists === 1 and
\* swallows an error; updateSession, refreshSession and setSessionField
\* return false without a key, go on to hSet with one, and rethrow an error
SessionExists(c, fail) ==
    /\ SessionAt(c, "exists")
    /\ LET call == sessionOps[c]
       IN  sessionOps' = [sessionOps EXCEPT ![c] =
              IF call.op = "isSessionValid"
              THEN SessionDone(call, IF ~ fail /\ SessionKeyExists(call.userId)
                                     THEN "true" ELSE "false")
              ELSE IF fail THEN SessionDone(call, "thrown")
                   ELSE IF ~ SessionKeyExists(call.userId)
                        THEN SessionDone(call, "false")
                        ELSE [call EXCEPT !.pc = "hSet"]]
    /\ UNCHANGED <<channelVars, connVars, sessions, activeSessions, countdown, ended, geo, meta, metaTTL,
                   profile, now, entryState, calls, started, obfIn, obfOut>>

\* Redis HSET: the fields are added to the hash; a hash that does not exist
\* is created, without an expiry time; an existing one keeps its own
HashSet(store, userId, fields) ==
    IF userId \in DOMAIN store
    THEN [store EXCEPT ![userId].fields = @ \cup fields]
    ELSE Put(store, userId, [fields |-> fields, expiresAt |-> <<>>])

\* client.hSet(sessionKey, ...) of createSession, updateSession,
\* refreshSession and setSessionField
SessionHSet(c, fail) ==
    /\ SessionAt(c, "hSet")
    /\ LET call == sessionOps[c]
       IN  IF fail
           THEN /\ sessionOps' = [sessionOps EXCEPT ![c] = SessionDone(call, "thrown")]
                /\ UNCHANGED sessions
           ELSE /\ sessions' = HashSet(sessions, call.userId, FieldsWritten(call.op))
                /\ sessionOps' = [sessionOps EXCEPT ![c] =
                        IF call.op \in {"createSession", "refreshSession"}
                        THEN [call EXCEPT !.pc = "expire"]
                        ELSE SessionDone(call, "true")]
    /\ UNCHANGED <<channelVars, connVars, activeSessions, countdown, ended, geo, meta, metaTTL,
                   profile, now, entryState, calls, started, obfIn, obfOut>>

\* client.expire(sessionKey, ttlSeconds) of createSession and
\* refreshSession: no effect on a key that does not exist
SessionExpire(c, fail) ==
    /\ SessionAt(c, "expire")
    /\ LET call == sessionOps[c]
           u    == call.userId
       IN  IF fail
           THEN /\ sessionOps' = [sessionOps EXCEPT ![c] = SessionDone(call, "thrown")]
                /\ UNCHANGED <<sessions, countdown>>
           ELSE /\ sessions' = IF u \in DOMAIN sessions
                               THEN [sessions EXCEPT ![u].expiresAt = <<now + call.ttl>>]
                               ELSE sessions
                /\ countdown' = IF u \in DOMAIN sessions
                                THEN [countdown EXCEPT ![u] = <<now + call.ttl>>]
                                ELSE countdown
                /\ sessionOps' = [sessionOps EXCEPT ![c] =
                        IF call.op = "createSession"
                        THEN [call EXCEPT !.pc = "sAdd"]
                        ELSE SessionDone(call, "true")]
    /\ UNCHANGED <<channelVars, connVars, activeSessions, ended, geo, meta, metaTTL,
                   profile, now, entryState, calls, started, obfIn, obfOut>>

\* client.sAdd(activeSessionsKey, userId), the last call of createSession
SessionSAdd(c, fail) ==
    /\ SessionAt(c, "sAdd")
    /\ LET call == sessionOps[c]
       IN  IF fail
           THEN /\ sessionOps' = [sessionOps EXCEPT ![c] = SessionDone(call, "thrown")]
                /\ UNCHANGED activeSessions
           ELSE /\ activeSessions' = activeSessions \cup {call.userId}
                /\ sessionOps' = [sessionOps EXCEPT ![c] = SessionDone(call, "true")]
    /\ UNCHANGED <<channelVars, connVars, sessions, countdown, ended, geo, meta, metaTTL,
                   profile, now, entryState, calls, started, obfIn, obfOut>>

\* client.sRem(activeSessionsKey, userId), the first call of deleteSession
SessionSRem(c, fail) ==
    /\ SessionAt(c, "sRem")
    /\ LET call == sessionOps[c]
       IN  IF fail
           THEN /\ sessionOps' = [sessionOps EXCEPT ![c] = SessionDone(call, "thrown")]
                /\ UNCHANGED activeSessions
           ELSE /\ activeSessions' = activeSessions \ {call.userId}
                /\ sessionOps' = [sessionOps EXCEPT ![c] = [call EXCEPT !.pc = "del"]]
    /\ UNCHANGED <<channelVars, connVars, sessions, countdown, ended, geo, meta, metaTTL,
                   profile, now, entryState, calls, started, obfIn, obfOut>>

\* client.del(sessionKey): deleteSession returns the number of keys deleted
SessionDel(c, fail) ==
    /\ SessionAt(c, "del")
    /\ LET call == sessionOps[c]
           u    == call.userId
       IN  IF fail
           THEN /\ sessionOps' = [sessionOps EXCEPT ![c] = SessionDone(call, "thrown")]
                /\ UNCHANGED <<sessions, countdown, ended>>
           ELSE /\ sessions' = Drop(sessions, u)
                /\ countdown' = [countdown EXCEPT ![u] = <<>>]
                /\ ended' = IF OpInFlightFor(u, {"createSession"})
                            THEN ended ELSE ended \cup {u}
                /\ sessionOps' = [sessionOps EXCEPT ![c] =
                        SessionDone(call, IF SessionKeyExists(u) THEN "1" ELSE "0")]
    /\ UNCHANGED <<channelVars, connVars, activeSessions, geo, meta, metaTTL,
                   profile, now, entryState, calls, started, obfIn, obfOut>>

\* the session keys whose expiry time has been reached at time t
SessionsExpiredAt(t) ==
    {u \in DOMAIN sessions :
        sessions[u].expiresAt # <<>> /\ sessions[u].expiresAt[1] <= t}

\* The clock advances; Redis deletes the session keys whose TTL has elapsed
SessionTick ==
    /\ now < MaxTicks * TickSeconds
    /\ now' = now + TickSeconds
    /\ sessions' = [u \in (DOMAIN sessions) \ SessionsExpiredAt(now + TickSeconds) |->
                        sessions[u]]
    /\ UNCHANGED <<channelVars, connVars, activeSessions, sessionOps, countdown, ended, geo, meta, metaTTL,
                   profile, entryState, calls, started, obfIn, obfOut>>

-----------------------------------------------------------------------------
(* AuthService.verifyToken.  A token is what jwtUtils.verify makes of it:  *)
(* it verifies or not, and its payload names a user id.  The result is     *)
(* "valid" for { valid: true, ... } and the error text for                 *)
(* { valid: false, error }.                                                *)

TokenArgs ==
    { [verifies |-> TRUE,  userId |-> "user1"],
      [verifies |-> TRUE,  userId |-> UnknownId],
      [verifies |-> FALSE, userId |-> "user1"] }

\* line 569: jwtUtils.verify throws for a token that does not verify; the
\* catch block turns the error into the result
StartVerify(c, token) ==
    /\ ~ SessionInFlight(c)
    /\ c = "c2" => SessionInFlight("c1")
    /\ started < MaxCalls
    /\ LET call == [IdleSessionOp EXCEPT !.op = "verifyToken",
                                         !.userId = token.userId]
       IN  sessionOps' = [sessionOps EXCEPT ![c] =
              IF ~ token.verifies
              THEN SessionDone(call, "Invalid token")
              ELSE [call EXCEPT !.pc = "findById", !.decoded = <<token.userId>>]]
    /\ started' = started + 1
    /\ UNCHANGED <<channelVars, connVars, sessions, activeSessions, countdown, ended, geo, meta, metaTTL,
                   profile, now, entryState, calls, obfIn, obfOut>>

\* lines 572-578: userRepository.findById(decoded.userId)
VerifyFindById(c, fail) ==
    /\ sessionOps[c].op = "verifyToken" /\ SessionAt(c, "findById")
    /\ LET call == sessionOps[c]
       IN  sessionOps' = [sessionOps EXCEPT ![c] =
              IF fail THEN SessionDone(call, "findById failed")
              ELSE IF call.userId \notin DOMAIN profile
                   THEN SessionDone(call, "User not found")
                   ELSE [call EXCEPT !.pc = "isSessionValid",
                                     !.user = <<call.userId>>]]
    /\ UNCHANGED <<channelVars, connVars, sessions, activeSessions, countdown, ended, geo, meta, metaTTL,
                   profile, now, entryState, calls, started, obfIn, obfOut>>

\* variant: the session check never refuses
SessionRefused_never(isSessionValid) == FALSE

\* line 582: if (!isSessionValid)
SessionRefused(isSessionValid) == ~ isSessionValid

\* lines 581-593: sessionRepository.isSessionValid(decoded.userId).  A store
\* error is reported as false by SessionRedis.isSessionValid; a session
\* repository that lets it through (rethrown) ends in the catch block.
VerifyIsSessionValid(c, fail, rethrown) ==
    /\ sessionOps[c].op = "verifyToken" /\ SessionAt(c, "isSessionValid")
    /\ LET call     == sessionOps[c]
           reported == ~ fail /\ SessionKeyExists(call.userId)
           asked    == [call EXCEPT !.isSessionValid = <<reported>>]
       IN  sessionOps' = [sessionOps EXCEPT ![c] =
              IF fail /\ rethrown
              THEN SessionDone(call, "isSessionValid failed")
              ELSE IF SessionRefused(reported)
                   THEN SessionDone(asked, "Session expired")
                   ELSE SessionDone(asked, "valid")]
    /\ UNCHANGED <<channelVars, connVars, sessions, activeSessions, countdown, ended, geo, meta, metaTTL,
                   profile, now, entryState, calls, started, obfIn, obfOut>>

-----------------------------------------------------------------------------
(* Channel model and ChannelRepository: one channel document with its      *)
(* owner, its members (a set: duplicates are refused by the schema) and    *)
(* its version key.  A repository call loads the document, changes the     *)
(* copy in memory and saves it; save() runs the pre('save') hook on the    *)
(* copy and writes the paths that were modified.                           *)

ChannelUsers == {"user1", "user2", "user123"}

\* channelData of create: the owner and the members given
CreateArgs ==
    { [owner |-> "user1", members |-> {}],
      [owner |-> "user1", members |-> {"user2"}],
      [owner |-> "user1", members |-> {"user1", "user2"}] }

\* schema default of maxMembers
MaxMembers == 50

NoDocument == [owner |-> "", members |-> {}, v |-> 0, maxMembers |-> 0]

\* loaded is the document as findById returned it, doc the copy in memory
IdleChannelOp ==
    [op |-> "idle", pc |-> "idle", userId |-> "", newOwnerId |-> "",
     loaded |-> NoDocument, doc |-> NoDocument, assigned |-> FALSE,
     settings |-> <<>>, userIds |-> <<>>, results |-> <<>>,
     result |-> "pending"]

ChannelsIdle ==
    /\ channel = <<>>
    /\ channelOps = [c \in Calls |-> IdleChannelOp]

ChannelInFlight(c) == channelOps[c].pc \notin {"idle", "done"}

ChannelDone(call, result) == [call EXCEPT !.pc = "done", !.result = result]

ChannelCanStart(c) ==
    /\ ~ ChannelInFlight(c)
    /\ c = "c2" => ChannelInFlight("c1")
    /\ started < MaxCalls

\* ChannelRepository.create: new Channel(channelData), then save()
StartCreate(c, channelData) ==
    /\ ChannelCanStart(c)
    /\ channel = <<>>
    /\ channelOps' = [channelOps EXCEPT ![c] =
            [IdleChannelOp EXCEPT !.op = "create", !.pc = "save",
                !.doc = [owner |-> channelData.owner,
                         members |-> channelData.members, v |-> 0,
                         maxMembers |-> MaxMembers]]]
    /\ started' = started + 1
    /\ UNCHANGED <<channel, sessionVars, connVars, geo, meta, metaTTL, profile,
                   now, entryState, calls, obfIn, obfOut>>

ChannelOpNames == {"addMember", "removeMember", "transferOwnership"}

\* addMember(channelId, userId), removeMember(channelId, userId) and
\* transferOwnership(channelId, currentOwnerId, newOwnerId) with ids that
\* pass _validateChannelId and _validateUserId
StartChannelOp(c, op, userId, newOwnerId) ==
    /\ ChannelCanStart(c)
    /\ channelOps' = [channelOps EXCEPT ![c] =
            [IdleChannelOp EXCEPT !.op = op, !.pc = "findById",
                                  !.userId = userId, !.newOwnerId = newOwnerId]]
    /\ started' = started + 1
    /\ UNCHANGED <<channel, sessionVars, connVars, geo, meta, metaTTL, profile,
                   now, entryState, calls, obfIn, obfOut>>

\* channelSchema.methods.addMember
addMember(call) ==
    IF Cardinality(call.loaded.members) >= call.loaded.maxMembers
    THEN ChannelDone(call, "Channel has reached maximum member limit")
    ELSE IF call.userId \notin call.loaded.members
         THEN [call EXCEPT !.pc = "save",
                           !.doc.members = @ \cup {call.userId}]
         ELSE ChannelDone(call, "ok")

\* channelSchema.methods.removeMember: refuses the owner, assigns the
\* filtered array to members
removeMember(call) ==
    IF call.loaded.owner = call.userId
    THEN ChannelDone(call, "Cannot remove channel owner")
    ELSE [call EXCEPT !.pc = "save", !.assigned = TRUE,
                      !.doc.members = @ \ {call.userId}]

\* ChannelRepository.transferOwnership, lines 329-341
transferOwnership(call) ==
    IF call.loaded.owner # call.userId
    THEN ChannelDone(call, "Only channel owner can transfer ownership")
    ELSE IF call.newOwnerId \notin call.loaded.members
         THEN ChannelDone(call, "New owner must be a channel member")
         ELSE [call EXCEPT !.pc = "save", !.doc.owner = call.newOwnerId]

\* ChannelRepository.batchAddMembers(channelId, userIds) with a non-empty
\* array of ids
StartBatchAdd(c, userIds) ==
    /\ ChannelCanStart(c)
    /\ channelOps' = [channelOps EXCEPT ![c] =
            [IdleChannelOp EXCEPT !.op = "batchAddMembers", !.pc = "findById",
                                  !.userIds = userIds]]
    /\ started' = started + 1
    /\ UNCHANGED <<channel, sessionVars, connVars, geo, meta, metaTTL, profile,
                   now, entryState, calls, obfIn, obfOut>>

\* results.push({ userId, success }) and the next element
BatchResult(call, success) ==
    [call EXCEPT !.results = Append(@, [userId |-> Head(call.userIds),
                                        success |-> success]),
                 !.userIds = Tail(@)]

\* lines 412-419: the loop over userIds, up to the next save() it awaits.
\* channel.addMember runs on the one document loaded before the loop; an
\* element it refuses is recorded and the loop goes on.
RECURSIVE batchAddMembers(_)
batchAddMembers(call) ==
    IF call.userIds = <<>> THEN ChannelDone(call, "ok")
    ELSE LET userId == Head(call.userIds)
         IN  IF Cardinality(call.doc.members) >= call.doc.maxMembers
             THEN batchAddMembers(BatchResult(call, FALSE))
             ELSE IF userId \notin call.doc.members
                  THEN [call EXCEPT !.pc = "save", !.userId = userId,
                                    !.doc.members = @ \cup {userId}]
                  ELSE batchAddMembers(BatchResult(call, TRUE))

\* ChannelRepository.updateChannelSettings(channelId, { maxMembers })
StartSettings(c, maxMembers) ==
    /\ ChannelCanStart(c)
    /\ channelOps' = [channelOps EXCEPT ![c] =
            [IdleChannelOp EXCEPT !.op = "updateChannelSettings",
                                  !.pc = "findByIdAndUpdate",
                                  !.settings = <<maxMembers>>]]
    /\ started' = started + 1
    /\ UNCHANGED <<channel, sessionVars, connVars, geo, meta, metaTTL, profile,
                   now, entryState, calls, obfIn, obfOut>>

\* runValidators: the schema's min and max of maxMembers
validateMaxMembers(maxMembers) ==
    IF maxMembers < 2 THEN "Channel must allow at least 2 members"
    ELSE IF maxMembers > 500 THEN "Channel cannot exceed 500 members"
         ELSE ""

\* Channel.findByIdAndUpdate(channelId, updateData, { new: true,
\* runValidators: true }): one atomic $set of maxMembers; null when there is
\* no such channel
SettingsWrite(c, fail) ==
    /\ channelOps[c].pc = "findByIdAndUpdate"
    /\ LET call == channelOps[c]
           err  == validateMaxMembers(call.settings[1])
       IN  IF fail \/ err # "" \/ channel = <<>>
           THEN /\ channelOps' = [channelOps EXCEPT ![c] =
                        ChannelDone(call, IF fail THEN "thrown"
                                          ELSE IF err # "" THEN err
                                               ELSE "null")]
                /\ UNCHANGED channel
           ELSE /\ channel' = <<[channel[1] EXCEPT
                                    !.maxMembers = call.settings[1]]>>
                /\ channelOps' = [channelOps EXCEPT ![c] = ChannelDone(call, "ok")]
    /\ UNCHANGED <<sessionVars, connVars, geo, meta, metaTTL, profile,
                   now, entryState, calls, started, obfIn, obfOut>>

\* Channel.findById, and the code that runs on the loaded document before
\* save() is awaited
ChannelFindById(c, fail) ==
    /\ channelOps[c].pc = "findById"
    /\ LET call == channelOps[c]
           got  == [call EXCEPT !.loaded = channel[1], !.doc = channel[1]]
       IN  channelOps' = [channelOps EXCEPT ![c] =
              IF fail THEN ChannelDone(call, "thrown")
              ELSE IF channel = <<>> THEN ChannelDone(call, "Channel not found")
              ELSE CASE call.op = "addMember"       -> addMember(got)
                     [] call.op = "removeMember"    -> removeMember(got)
                     [] call.op = "batchAddMembers" -> batchAddMembers(got)
                     [] OTHER                       -> transferOwnership(got)]
    /\ UNCHANGED <<channel, sessionVars, connVars, geo, meta, metaTTL, profile,
                   now, entryState, calls, started, obfIn, obfOut>>

\* pre('save') hook: the owner is put in front of members if it is missing
PreSave(doc) ==
    IF doc.owner \in doc.members THEN doc
    ELSE [doc EXCEPT !.members = @ \cup {doc.owner}]

\* save() of a loaded document writes the modified paths only: a changed
\* owner with $set; an assigned members array with $set, the update then
\* being conditional on the version key the document was loaded with;
\* pushed members with $push.  Either change of members increments the
\* version key.
SaveLoaded(stored, call) ==
    LET doc       == PreSave(call.doc)
        setsArray == call.assigned /\ doc.members # call.loaded.members
        pushed    == doc.members \ call.loaded.members
    IN  IF setsArray /\ stored.v # call.loaded.v
        THEN [written |-> stored, result |-> "VersionError"]
        ELSE [written |->
                [owner   |-> IF doc.owner # call.loaded.owner
                             THEN doc.owner ELSE stored.owner,
                 members |-> IF setsArray THEN doc.members
                             ELSE stored.members \cup pushed,
                 v       |-> IF setsArray \/ pushed # {}
                             THEN stored.v + 1 ELSE stored.v,
                 maxMembers |-> stored.maxMembers],
              result  |-> "ok"]

\* the document in memory after its save() resolved: nothing is modified
\* any more, and it carries the version key that was written
Saved(call, v) ==
    LET doc == [PreSave(call.doc) EXCEPT !.v = v]
    IN  [call EXCEPT !.doc = doc, !.loaded = doc]


\* document.save(): an insert for a new document, an update for a loaded
\* one.  batchAddMembers records the outcome and goes on with its loop.
ChannelSave(c, fail) ==
    /\ channelOps[c].pc = "save"
    /\ LET call == channelOps[c]
       IN  IF fail
           THEN /\ channelOps' = [channelOps EXCEPT ![c] =
                        IF call.op = "batchAddMembers"
                        THEN batchAddMembers(BatchResult(call, FALSE))
                        ELSE ChannelDone(call, "thrown")]
                /\ UNCHANGED channel
           ELSE IF call.op = "create"
                THEN /\ channel' = <<PreSave(call.doc)>>
                     /\ channelOps' = [channelOps EXCEPT ![c] = ChannelDone(call, "ok")]
                ELSE LET saved == SaveLoaded(channel[1], call)
                     IN  /\ channel' = <<saved.written>>
                         /\ channelOps' = [channelOps EXCEPT ![c] =
                                IF call.op = "batchAddMembers"
                                THEN batchAddMembers(Saved(BatchResult(call, TRUE),
                                                           saved.written.v))
                                ELSE ChannelDone(call, saved.result)]
    /\ UNCHANGED <<sessionVars, connVars, geo, meta, metaTTL, profile,
                   now, entryState, calls, started, obfIn, obfOut>>

-----------------------------------------------------------------------------
(* Database configuration: the module variable redisClient, connectRedis   *)
(* and disconnectRedis.  A client is open (isOpen) from the moment its     *)
(* connect() is called until its quit() is called.                         *)

\* Number of connectRedis / disconnectRedis calls in one behaviour
MaxConnCalls == 3

IdleConnOp ==
    [op |-> "idle", pc |-> "idle", client |-> 0, returned |-> <<>>,
     threw |-> FALSE]

IdleMongoOp ==
    [op |-> "idle", pc |-> "idle", returned |-> <<>>, threw |-> ""]

MongoIdle ==
    /\ mongoConnection = <<>>
    /\ readyState = 0
    /\ mongoOps = [c \in Calls |-> IdleMongoOp]
    /\ established = FALSE

ConnectionIdle ==
    /\ redisClient = <<>>
    /\ clients = [i \in {} |-> "closed"]
    /\ connOps = [c \in Calls |-> IdleConnOp]
    /\ MongoIdle

ConnInFlight(c) == connOps[c].pc \notin {"idle", "done"}

ConnCanStart(c) ==
    /\ ~ ConnInFlight(c)
    /\ c = "c2" => ConnInFlight("c1")
    /\ started < MaxConnCalls

\* client.isOpen
IsOpen(client) == clients[client] \in {"connecting", "ready"}

\* redisClient?.isOpen
SingletonOpen == redisClient # <<>> /\ IsOpen(redisClient[1])

OpenClients == {i \in DOMAIN clients : IsOpen(i)}

\* lines 80-87: the singleton is returned if it is open; otherwise a client
\* is created, assigned to redisClient, and its connect() is awaited
StartConnect(c) ==
    /\ ConnCanStart(c)
    /\ started' = started + 1
    /\ IF SingletonOpen
       THEN /\ connOps' = [connOps EXCEPT ![c] =
                    [IdleConnOp EXCEPT !.op = "connectRedis", !.pc = "done",
                                       !.returned = redisClient]]
            /\ UNCHANGED <<redisClient, clients>>
       ELSE LET new == Cardinality(DOMAIN clients) + 1
            IN  /\ clients' = Put(clients, new, "connecting")
                /\ redisClient' = <<new>>
                /\ connOps' = [connOps EXCEPT ![c] =
                        [IdleConnOp EXCEPT !.op = "connectRedis",
                                           !.pc = "connect", !.client = new]]
    /\ UNCHANGED <<mongoVars, sessionVars, channelVars, geo, meta, metaTTL, profile,
                   now, entryState, calls, obfIn, obfOut>>

\* lines 87-92: connect() resolves and the call returns the module variable
\* redisClient, or connect() rejects, the client is closed and the call
\* throws.  connect() of a client that was closed meanwhile rejects.
ConnectCompletes(c, fail) ==
    /\ connOps[c].pc = "connect"
    /\ LET call == connOps[c]
       IN  IF fail \/ clients[call.client] # "connecting"
           THEN /\ clients' = [clients EXCEPT ![call.client] = "closed"]
                /\ connOps' = [connOps EXCEPT ![c] =
                        [call EXCEPT !.pc = "done", !.threw = TRUE]]
           ELSE /\ clients' = [clients EXCEPT ![call.client] = "ready"]
                /\ connOps' = [connOps EXCEPT ![c] =
                        [call EXCEPT !.pc = "done", !.returned = redisClient]]
    /\ UNCHANGED <<mongoVars, redisClient, started, sessionVars, channelVars, geo, meta,
                   metaTTL, profile, now, entryState, calls, obfIn, obfOut>>

\* lines 106-107: quit() is called on the open singleton; the client is no
\* longer open from this moment
StartDisconnect(c) ==
    /\ ConnCanStart(c)
    /\ started' = started + 1
    /\ IF SingletonOpen
       THEN /\ clients' = [clients EXCEPT ![redisClient[1]] = "closed"]
            /\ connOps' = [connOps EXCEPT ![c] =
                    [IdleConnOp EXCEPT !.op = "disconnectRedis", !.pc = "quit",
                                       !.client = redisClient[1]]]
       ELSE /\ connOps' = [connOps EXCEPT ![c] =
                    [IdleConnOp EXCEPT !.op = "disconnectRedis", !.pc = "done"]]
            /\ UNCHANGED clients
    /\ UNCHANGED <<mongoVars, redisClient, sessionVars, channelVars, geo, meta, metaTTL,
                   profile, now, entryState, calls, obfIn, obfOut>>

\* line 108: redisClient = null
ClearedSingleton(current, closed) == <<>>

\* lines 107-109: quit() resolves and redisClient is set to null; if quit()
\* rejects the assignment is skipped
QuitCompletes(c, fail) ==
    /\ connOps[c].pc = "quit"
    /\ redisClient' = IF fail THEN redisClient
                      ELSE ClearedSingleton(redisClient, connOps[c].client)
    /\ connOps' = [connOps EXCEPT ![c].pc = "done", ![c].threw = fail]
    /\ UNCHANGED <<mongoVars, clients, started, sessionVars, channelVars, geo, meta,
                   metaTTL, profile, now, entryState, calls, obfIn, obfOut>>

-----------------------------------------------------------------------------
(* The MongoDB connection of the database configuration.  mongoose is the   *)
(* library's default instance; mongoose.connection is its Connection, whose *)
(* readyState is 0 disconnected, 1 connected, 2 connecting, 3              *)
(* disconnecting.                                                          *)

MongoInFlight(c) == mongoOps[c].pc \notin {"idle", "done"}

MongoCanStart(c) ==
    /\ ~ MongoInFlight(c)
    /\ c = "c2" => MongoInFlight("c1")
    /\ started < MaxConnCalls

\* obj.readyState: the Connection has the property; the Mongoose instance
\* (whose Connection is obj.connection) has none, and the read is undefined
readyStateOf(obj) == IF obj = "Connection" THEN <<readyState>> ELSE <<>>

\* line 40: what await mongoose.connect(uri, options) resolves to, the
\* Mongoose instance itself
mongooseConnect == "Mongoose"

\* mongoConnection?.readyState === 1
CachedConnected ==
    mongoConnection # <<>> /\ readyStateOf(mongoConnection[1]) = <<1>>

\* lines 34-40: the cached connection is returned if its readyState is 1;
\* otherwise mongoose.connect is called, which starts connecting unless the
\* default connection is connected already
StartConnectDB(c) ==
    /\ MongoCanStart(c)
    /\ started' = started + 1
    /\ IF CachedConnected
       THEN /\ mongoOps' = [mongoOps EXCEPT ![c] =
                    [IdleMongoOp EXCEPT !.op = "connectDB", !.pc = "done",
                                        !.returned = mongoConnection]]
            /\ UNCHANGED readyState
       ELSE /\ mongoOps' = [mongoOps EXCEPT ![c] =
                    [IdleMongoOp EXCEPT !.op = "connectDB", !.pc = "connect"]]
            /\ readyState' = IF readyState = 1 THEN 1 ELSE 2
    /\ UNCHANGED <<mongoConnection, established, redisClient, clients, connOps,
                   sessionVars, channelVars, geo, meta, metaTTL, profile, now,
                   entryState, calls, obfIn, obfOut>>

\* lines 40-46: mongoose.connect resolves, its value is assigned to
\* mongoConnection and returned; or it rejects (the server cannot be
\* reached, or the connection was closed meanwhile) and the call throws
ConnectDBCompletes(c, fail) ==
    /\ mongoOps[c].pc = "connect"
    /\ IF (fail /\ readyState = 2) \/ readyState \in {0, 3}
       THEN /\ readyState' = IF readyState = 2 THEN 0 ELSE readyState
            /\ mongoOps' = [mongoOps EXCEPT ![c].pc = "done",
                                            ![c].threw = "connection failed"]
            /\ UNCHANGED <<mongoConnection, established>>
       ELSE /\ readyState' = 1
            /\ mongoConnection' = <<mongooseConnect>>
            /\ established' = TRUE
            /\ mongoOps' = [mongoOps EXCEPT ![c].pc = "done",
                                            ![c].returned = <<mongooseConnect>>]
    /\ UNCHANGED <<started, redisClient, clients, connOps,
                   sessionVars, channelVars, geo, meta, metaTTL, profile, now,
                   entryState, calls, obfIn, obfOut>>

\* lines 98-99: with a mongoConnection, mongoose.disconnect() is called
StartDisconnectDB(c) ==
    /\ MongoCanStart(c)
    /\ started' = started + 1
    /\ IF mongoConnection # <<>>
       THEN /\ mongoOps' = [mongoOps EXCEPT ![c] =
                    [IdleMongoOp EXCEPT !.op = "disconnectDB", !.pc = "disconnect"]]
            /\ readyState' = IF readyState = 0 THEN 0 ELSE 3
            /\ established' = FALSE
       ELSE /\ mongoOps' = [mongoOps EXCEPT ![c] =
                    [IdleMongoOp EXCEPT !.op = "disconnectDB", !.pc = "done"]]
            /\ UNCHANGED <<readyState, established>>
    /\ UNCHANGED <<mongoConnection, redisClient, clients, connOps,
                   sessionVars, channelVars, geo, meta, metaTTL, profile, now,
                   entryState, calls, obfIn, obfOut>>

\* lines 99-101: mongoose.disconnect() resolves and mongoConnection is set
\* to null; if it rejects the assignment is skipped
DisconnectDBCompletes(c, fail) ==
    /\ mongoOps[c].pc = "disconnect"
    /\ readyState' = 0
    /\ mongoConnection' = IF fail THEN mongoConnection ELSE <<>>
    /\ mongoOps' = [mongoOps EXCEPT ![c].pc = "done",
                        ![c].threw = IF fail THEN "disconnect failed" ELSE ""]
    /\ UNCHANGED <<established, started, redisClient, clients, connOps,
                   sessionVars, channelVars, geo, meta, metaTTL, profile, now,
                   entryState, calls, obfIn, obfOut>>

\* lines 114-119
getMongoConnection(c) ==
    /\ MongoCanStart(c)
    /\ started' = started + 1
    /\ mongoOps' = [mongoOps EXCEPT ![c] =
            IF mongoConnection = <<>> \/ readyStateOf(mongoConnection[1]) # <<1>>
            THEN [IdleMongoOp EXCEPT !.op = "getMongoConnection", !.pc = "done",
                    !.threw = "MongoDB not connected. Call connectDB() first."]
            ELSE [IdleMongoOp EXCEPT !.op = "getMongoConnection", !.pc = "done",
                                     !.returned = mongoConnection]]
    /\ UNCHANGED <<mongoConnection, readyState, established, redisClient, clients,
                   connOps, sessionVars, channelVars, geo, meta, metaTTL, profile,
                   now, entryState, calls, obfIn, obfOut>>

\* lines 130-133
resetConnections(c) ==
    /\ MongoCanStart(c)
    /\ started' = started + 1
    /\ mongoConnection' = <<>>
    /\ redisClient' = <<>>
    /\ established' = FALSE
    /\ mongoOps' = [mongoOps EXCEPT ![c] =
            [IdleMongoOp EXCEPT !.op = "resetConnections", !.pc = "done"]]
    /\ UNCHANGED <<readyState, clients, connOps, sessionVars, channelVars, geo,
                   meta, metaTTL, profile, now, entryState, calls, obfIn, obfOut>>

\* the server or the network drops the connection ('disconnected' event)
ConnectionLost ==
    /\ readyState = 1
    /\ readyState' = 0
    /\ UNCHANGED <<mongoConnection, mongoOps, established, started, redisClient,
                   clients, connOps, sessionVars, channelVars, geo, meta, metaTTL,
                   profile, now, entryState, calls, obfIn, obfOut>>

OtherStoresIdle == SessionsIdle /\ ChannelsIdle /\ ConnectionIdle

-----------------------------------------------------------------------------
(* Initial states and specifications                                       *)


\* the input each user last reported in an initial state
HomeInput(userId) ==
    IF userId = "user1" THEN [longitude |-> 0, latitude |-> 0]
    ELSE [longitude |-> 12000, latitude |-> 0]

HomePosition(userId) ==
    obfuscateCoordinates(userId, HomeInput(userId).longitude,
                         HomeInput(userId).latitude)

\* publicRadiusKm of the user documents in an initial state (50 is the
\* schema default)
HomeRadius(userId) ==
    IF userId = "user1" THEN 1 ELSE IF userId = "user2" THEN 2 ELSE 50

\* The stores as a sequence of completed calls leaves them: every user
\* document exists; the users in visible are public; a user in located has a
\* position written by a successful updateUserLocation at time 0 in both
\* stores, the others have never reported one.
Quiescent(located, visible) ==
    /\ geo = [u \in located |-> HomePosition(u)]
    /\ meta = [u \in located |->
                  [lastUpdate |-> 0, longitude |-> HomePosition(u).longitude,
                   latitude |-> HomePosition(u).latitude]]
    /\ metaTTL = [u \in located |-> LocationTTL]
    /\ profile = [u \in ProfileIds |->
                    [isPubliclyVisible |-> u \in visible,
                     publicRadiusKm |-> HomeRadius(u),
                     lastKnownLocation |->
                        IF u \in located THEN <<HomePosition(u)>> ELSE <<>>]]
    /\ entryState = [u \in IdArgs |->
                        IF u \in located THEN "written" ELSE "absent"]
    /\ now = 0
    /\ calls = [c \in Calls |-> IdleCall]
    /\ started = 0

ObfIdle == [seed |-> [hi |-> 0, lo |-> 0], longitude |-> 0, latitude |-> 0]

InFlight(c) == calls[c].pc \notin {"idle", "done"}

\* a new call takes the first slot that has no call in flight
FreeSlot(c) == ~ InFlight(c) /\ (c = "c2" => InFlight("c1"))

-----------------------------------------------------------------------------
(* Location writes: updateUserLocation and removeUserLocation calls for    *)
(* one user document, an id without a document and the empty id, running   *)
(* concurrently, and TTL expiry                                            *)

WriterIds == {"user1", UnknownId, ""}

InitUpdate ==
    /\ \E located \in SUBSET {"user1"} : Quiescent(located, {})
    /\ OtherStoresIdle
    /\ obfIn = ObfIdle
    /\ obfOut = <<>>

UpdateStoreCall(c, fail) ==
    \/ UpdateFindById(c, fail)
    \/ UpdateGeoAdd(c, fail)
    \/ UpdateHSet(c, fail)
    \/ UpdateExpire(c, fail)
    \/ UpdateProfileWrite(c, fail)

RemoveStoreCall(c, fail) ==
    \/ RemoveZRem(c, fail)
    \/ RemoveDel(c, fail)

NextUpdate ==
    \/ \E c \in Calls, x \in UpdateArgs :
            FreeSlot(c) /\ StartUpdate(c, x.userId, x.position.longitude,
                                       x.position.latitude, x.accuracy)


    \/ \E c \in Calls, u \in WriterIds : FreeSlot(c) /\ StartRemove(c, u)
    \/ \E c \in Calls, fail \in BOOLEAN : UpdateStoreCall(c, fail)
    \/ \E c \in Calls, fail \in BOOLEAN : RemoveStoreCall(c, fail)
    \/ Tick

SpecUpdate == InitUpdate /\ [][NextUpdate]_vars

-----------------------------------------------------------------------------
(* Location queries: one query call in slot c1, against any quiescent       *)
(* state of the stores, with privacy updates or removals that start while  *)
(* the query is in flight running in slot c2                               *)

InitQuery ==
    /\ \E located \in SUBSET ProfileIds, visible \in SUBSET ProfileIds :
            Quiescent(located, visible)
    /\ OtherStoresIdle
    /\ obfIn = ObfIdle
    /\ obfOut = <<>>

\* the privacy updates that run beside a query: a change of the flag alone
VisibilityFlips == {st \in SettingsArgs : st.publicRadiusKm = <<>>}

QueryStoreCall(c, fail) ==
    \/ ValidateFindById(c, fail)
    \/ DistanceGeoPos1(c, fail)
    \/ DistanceGeoPos2(c, fail)
    \/ NearbyFindById(c, fail)
    \/ NearbyGetUserLocation(c, fail)
    \/ NearbyZRange(c, fail)
    \/ NearbyScan(c, fail)
    \/ NearbyFindPublic(c, fail)
    \/ StatusFindById(c, fail)
    \/ StatusGetLocation(c, fail)
    \/ StatusGetMetadata(c, fail)

StartQuery(c) ==
    \/ \E u \in IdArgs, t \in IdArgs : StartValidate(c, u, t)
    \/ \E u \in IdArgs, t \in IdArgs : StartDistance(c, u, t)
    \/ \E u \in IdArgs, r \in RadiusArgs, l \in LimitArgs : StartNearby(c, u, r, l)
    \/ \E u \in IdArgs : StartStatus(c, u)

NextQuery ==
    \/ calls["c1"].pc = "idle" /\ StartQuery("c1")
    \/ \E fail \in BOOLEAN : QueryStoreCall("c1", fail)
    \/ \E u \in ProfileIds, st \in VisibilityFlips :
            InFlight("c1") /\ StartPrivacy("c2", u, st)
    \/ \E u \in ProfileIds : InFlight("c1") /\ StartRemove("c2", u)
    \/ \E fail \in BOOLEAN : PrivacyWrite("c2", fail)
    \/ \E fail \in BOOLEAN : RemoveStoreCall("c2", fail)

SpecQuery == InitQuery /\ [][NextQuery]_vars

-----------------------------------------------------------------------------
(* Coordinate obfuscation as a function of the seed: _obfuscateCoordinates *)
(* applied once to a seed and a coordinate pair.  The seeds cover both     *)
(* halves of the 32-bit range, the ends of the range and the digests of    *)
(* the ids above.                                                          *)

SeedHiArgs == {1, 5000, 12390, 32767, 32768, 35479, 60164, 65535}

SeedLoArgs == {1, 3256, 5000, 9999, 24499, 50422, 65535}

LongitudeArgs == {0 - 180000000, 0 - 122419400, 0, 180000000}

LatitudeArgs == {0 - 90000000, 0, 37774900, 90000000}

InitObf ==
    /\ Quiescent({}, {})
    /\ OtherStoresIdle
    /\ obfIn \in [seed : [hi : SeedHiArgs, lo : SeedLoArgs],
                  longitude : LongitudeArgs, latitude : LatitudeArgs]
    /\ obfOut = <<>>

Obfuscate ==
    /\ obfOut = <<>>
    /\ obfOut' = <<ObfuscateWithSeed(obfIn.seed, obfIn.longitude, obfIn.latitude)>>
    /\ UNCHANGED <<otherStores, geo, meta, metaTTL, profile, now, entryState, calls, started,
                   obfIn>>

NextObf == Obfuscate

SpecObf == InitObf /\ [][NextObf]_vars

-----------------------------------------------------------------------------
(* Properties of location writes (SpecUpdate)                              *)

\* call c completes in this step with the success result of updateUserLocation
UpdateReturnsSuccess(c) ==
    /\ At(c, "update", "updateLocation")
    /\ calls'[c].pc = "done"
    /\ calls'[c].result.success

\* another updateUserLocation call for the id of call c is in flight in cs
OtherUpdateInFlight(cs, c) ==
    \E d \in Calls \ {c} :
        /\ cs[d].op = "update"
        /\ cs[d].userId = cs[c].userId
        /\ cs[d].pc \notin {"idle", "done"}

\* the Geo Index Entry of u and the Profile's lastKnownLocation hold the
\* same position
StoresAgree(u) ==
    /\ u \in DOMAIN geo
    /\ u \in DOMAIN profile
    /\ profile[u].lastKnownLocation = <<geo[u]>>

\* no store call of an updateUserLocation call for the id of call c was
\* rejected
NoUpdateFailed(cs, c) ==
    \A d \in Calls :
        (cs[d].op = "update" /\ cs[d].userId = cs[c].userId)
            => cs[d].failedCall = ""

\* C1, as the specification states it: when updateUserLocation(u) returns
\* success while no other update for u is in flight, and neither a removal
\* nor a TTL expiry for u happened between its writes and its return, the
\* position in the Geo Index equals the Profile's lastKnownLocation, whatever
\* the interleaving of the updates for u that ran beside it (every store
\* call of these updates being served).
C1_AgreeAfterAnyInterleaving ==
    [][\A c \in Calls :
          ( /\ UpdateReturnsSuccess(c)
            /\ ~ OtherUpdateInFlight(calls', c)
            /\ NoUpdateFailed(calls', c)
            /\ calls[c].interfered \cap {"remove", "expiry"} = {} )
          => StoresAgree(calls[c].userId)']_vars

\* C1, as the code keeps it: when updateUserLocation(u) returns success and
\* no other call wrote or removed u's position between this call's write of
\* the Geo Index Entry and its write of the Profile, the position in the Geo
\* Index equals the Profile's lastKnownLocation.
C1_AgreeWhenWritesNotInterleaved ==
    [][\A c \in Calls :
          ( /\ UpdateReturnsSuccess(c)
            /\ calls[c].interfered \cap {"update", "remove"} = {} )
          => StoresAgree(calls[c].userId)']_vars

\* an update has returned success with its two writes not interleaved, the
\* stores agree on its position, and a second update for the same user is
\* in flight beside it
C1_Witness ==
    \E c \in Calls, d \in Calls :
        /\ c # d
        /\ calls[c].op = "update" /\ calls[c].pc = "done"
        /\ calls[c].result.success
        /\ calls[c].interfered = {}
        /\ calls[d].op = "update" /\ calls[d].pc = "geoAdd"
        /\ calls[d].userId = calls[c].userId
        /\ StoresAgree(calls[c].userId)
        /\ geo[calls[c].userId] = calls[c].obfuscated[1]

\* C2: once the 86400 s TTL set by a successful updateUserLocation(u) has
\* elapsed, u has no position in the Geo Index: getUserLocation(u) returns
\* null, so getNearbyUsers for u fails with 'User location not found' and u
\* is no candidate of another user's scan.
C2_ExpiredEntryIsGone ==
    \A u \in IdArgs : entryState[u] = "lapsed" => getLocation(u, FALSE) = <<>>

-----------------------------------------------------------------------------
(* Properties of the obfuscation (SpecObf)                                 *)

\* C7: for every seed, the obfuscated longitude and latitude each differ
\* from the input by less than obfuscationRange (0.005 degree).
C7_OffsetBelowRange ==
    obfOut # <<>> =>
        /\ Abs(obfOut[1].longitude - obfIn.longitude) < obfuscationRange
        /\ Abs(obfOut[1].latitude - obfIn.latitude) < obfuscationRange

\* C8: the position that is stored is never exactly the position that was
\* supplied.
C8_NeverTheRawInput ==
    obfOut # <<>> =>
        \/ obfOut[1].longitude # obfIn.longitude
        \/ obfOut[1].latitude # obfIn.latitude

-----------------------------------------------------------------------------
(* Properties of location queries (SpecQuery)                              *)

\* call c, of operation op, completes in this step with an ordinary result
Returns(c, op) ==
    /\ calls[c].op = op
    /\ calls[c].pc \notin {"idle", "done"}
    /\ calls'[c].pc = "done"
    /\ calls'[c].result.outcome = "returned"

\* C3: no user returned by getNearbyUsers has isPubliclyVisible = false in
\* the Profile Store at the time of the call's profile query.
C3_OnlyPublicUsersReturned ==
    [][\A c \in Calls :
          Returns(c, "nearby") =>
              \A i \in DOMAIN calls'[c].result.users :
                  LET m == calls'[c].result.users[i].userId
                  IN  m \in DOMAIN profile /\ profile[m].isPubliclyVisible]_vars

\* getNearbyUsers has returned a public user while a private user, found by
\* the geo scan at a smaller distance, is not in the result
C3_Witness ==
    \E c \in Calls :
        /\ calls[c].op = "nearby" /\ calls[c].pc = "done"
        /\ calls[c].result.users # <<>>
        /\ calls[c].limit >= 2
        /\ Len(calls[c].nearbyUsers) >= 2
        /\ ~ profile[calls[c].nearbyUsers[1].member].isPubliclyVisible
        /\ \A i \in DOMAIN calls[c].result.users :
              calls[c].result.users[i].userId # calls[c].nearbyUsers[1].member

\* a validateLocationAccess call of one user for another has returned its
\* decision, every store call having been served
AccessDecided(call) ==
    /\ call.op = "validate" /\ call.pc = "done"
    /\ call.result.outcome = "returned"
    /\ call.userId # call.userId2
    /\ call.failedCall = ""

\* the profile a call read is the document of user t, up to the visibility
\* flag, which a concurrent privacy update may have changed since
IsDocumentOf(user, t) ==
    IF user = <<>> THEN t \notin DOMAIN profile
    ELSE /\ t \in DOMAIN profile
         /\ [user[1] EXCEPT !.isPubliclyVisible =
                                profile[t].isPubliclyVisible] = profile[t]

\* the positions a call read are within the radius of the target it read
WithinTargetRadius(call) ==
    /\ call.userLocation # <<>>
    /\ call.location2 # <<>>
    /\ calculateDistance(call.userLocation[1].longitude,
                         call.userLocation[1].latitude,
                         call.location2[1].longitude,
                         call.location2[1].latitude)
          <= call.user[1].publicRadiusKm * 100

\* C4: validateLocationAccess(r, t) with r # t allows access exactly when
\* t's profile exists, t is publicly visible, r and t both have a position
\* in the Geo Index and the distance between them is at most t's
\* publicRadiusKm; the profile consulted is the target's, never the
\* requester's.
C4_AllowedIffPublicAndWithinTargetRadius ==
    \A c \in Calls :
        AccessDecided(calls[c]) =>
            /\ IsDocumentOf(calls[c].user, calls[c].userId2)
            /\ calls[c].result.allowed <=>
                  ( /\ calls[c].user # <<>>
                    /\ calls[c].user[1].isPubliclyVisible
                    /\ WithinTargetRadius(calls[c]) )

\* access was allowed to a requester who is private and whose own radius is
\* smaller than the distance to the target
C4_Witness ==
    \E c \in Calls :
        /\ AccessDecided(calls[c])
        /\ calls[c].result.allowed
        /\ ~ profile[calls[c].userId].isPubliclyVisible
        /\ ~ WithinTargetRadius([calls[c] EXCEPT
                                    !.user = <<profile[calls[c].userId]>>])

\* C5: a denial of validateLocationAccess(r, t), r # t, names the first
\* failing check in the order 'Target user not found', 'User location is
\* private', 'Location data not available', 'Outside public radius'; a
\* private target is denied at the profile lookup, before any position is
\* read.
C5_DenialPrecedence ==
    [][\A c \in Calls :
          (Returns(c, "validate") /\ AccessDecided(calls'[c])) =>
              LET call    == calls'[c]
                  text    == call.result.text
                  missing == call.userLocation = <<>> \/ call.location2 = <<>>
              IN  /\ call.user = <<>> => text = "Target user not found"
                  /\ (call.user # <<>> /\ ~ call.user[1].isPubliclyVisible) =>
                        /\ text = "User location is private"
                        /\ calls[c].pc = "findById"
                        /\ call.userLocation = <<>> /\ call.location2 = <<>>
                  /\ (call.user # <<>> /\ call.user[1].isPubliclyVisible
                        /\ missing) =>
                        text = "Location data not available"
                  /\ (call.user # <<>> /\ call.user[1].isPubliclyVisible
                        /\ ~ missing /\ ~ WithinTargetRadius(call)) =>
                        text = "Outside public radius"]_vars

\* a private target was denied as private although both users have
\* positions within the target's radius
C5_Witness ==
    \E c \in Calls :
        /\ AccessDecided(calls[c])
        /\ calls[c].result.text = "User location is private"
        /\ calls[c].userLocation = <<>> /\ calls[c].location2 = <<>>
        /\ WithinTargetRadius([calls[c] EXCEPT
                                  !.userLocation = geoPos(calls[c].userId),
                                  !.location2 = geoPos(calls[c].userId2)])

\* C6: validateLocationAccess(u, u) is allowed for every id u that passes
\* the id validation, whatever the flags, the profile and the position of u,
\* and without a read of either store: the call is decided when it starts.
C6_OwnAccessAlwaysAllowed ==
    \A c \in Calls :
        ( /\ calls[c].op = "validate"
          /\ calls[c].userId = calls[c].userId2
          /\ validateUserId(calls[c].userId) = "" )
        => /\ calls[c].pc = "done"
           /\ calls[c].result.outcome = "returned"
           /\ calls[c].result.allowed
           /\ calls[c].result.text = "Own location access"
           /\ calls[c].user = <<>>
           /\ calls[c].userLocation = <<>> /\ calls[c].location2 = <<>>

\* own access was allowed to a private user who has no position, and to an
\* id that has no profile
C6_Witness ==
    \E c \in Calls :
        /\ calls[c].op = "validate" /\ calls[c].result.allowed
        /\ calls[c].userId = calls[c].userId2
        /\ calls[c].userId \notin DOMAIN geo
        /\ \/ calls[c].userId \notin DOMAIN profile
           \/ ~ profile[calls[c].userId].isPubliclyVisible

\* C9: getNearbyUsers returns exactly the min(limit, |S|) nearest members
\* of S, by ascending geo distance, where S holds the users that are both in
\* the in-radius set of the geo scan and in the result of the profile
\* query: the limit truncates the intersected set.
C9_LimitAppliesToIntersection ==
    \A c \in Calls :
        ( /\ calls[c].op = "nearby" /\ calls[c].pc = "done"
          /\ calls[c].result.outcome = "returned"
          /\ calls[c].failedCall = "" )
        => calls[c].result.users =
              Slice(Combine(calls[c].nearbyUsers, calls[c].publicUsers),
                    calls[c].limit)

\* C10: a store failure in a location operation surfaces as an error of the
\* operation, never as an ordinary result.
C10_StoreFailureIsAnError ==
    \A c \in Calls :
        (calls[c].pc = "done" /\ calls[c].failedCall # "")
            => calls[c].result.outcome = "thrown"

-----------------------------------------------------------------------------
(* Partial failure of the two-store write (SpecUpdate)                     *)

\* the Profile write of call c is rejected in this step
ProfileWriteFails(c) ==
    /\ At(c, "update", "updateLocation")
    /\ calls'[c].pc = "done"
    /\ calls'[c].failedCall = "updateLocation"

\* no other call wrote or removed the position of call's user between the
\* call's write of the Geo Index Entry and now
WritesNotInterleaved(call) == call.interfered \cap {"update", "remove"} = {}

\* C11: when the Geo Index write of updateUserLocation has succeeded and the
\* Profile write fails, the call raises an error, the Geo Index Entry keeps
\* the new position and the Profile keeps the position it had; and the next
\* updateUserLocation for the user that returns success, with no other write
\* for the user between its two writes, leaves both stores with its position.
C11_PartialFailureIsReconciled ==
    [][\A c \in Calls :
          /\ ProfileWriteFails(c) =>
                /\ calls'[c].result.outcome = "thrown"
                /\ profile' = profile
                /\ geo' = geo
                /\ WritesNotInterleaved(calls[c]) =>
                      geoPos(calls[c].userId) = calls[c].obfuscated
          /\ ( /\ UpdateReturnsSuccess(c)
               /\ calls[c].repairs
               /\ WritesNotInterleaved(calls[c]) ) =>
                /\ StoresAgree(calls[c].userId)'
                /\ geo'[calls[c].userId] = calls[c].obfuscated[1]]_vars

\* an update that started after a partial failure has returned success and
\* both stores hold its position

C11_Witness ==
    \E c \in Calls :
        /\ calls[c].op = "update" /\ calls[c].pc = "done"
        /\ calls[c].result.success
        /\ calls[c].repairs
        /\ entryState[calls[c].userId] = "confirmed"
        /\ StoresAgree(calls[c].userId)
        /\ geo[calls[c].userId] = calls[c].obfuscated[1]
        /\ geo[calls[c].userId] # HomePosition(calls[c].userId)

-----------------------------------------------------------------------------
(* C12: validation of updateUserLocation                                   *)

\* the step at which call slot c begins an operation op
Begins(c, op) ==
    /\ started' = started + 1
    /\ calls'[c] # calls[c]
    /\ calls'[c].op = op

\* the arguments C12 lists as invalid
InvalidUpdateArgs(call) ==
    \/ call.userId = ""
    \/ call.longitude = NonNumeric
    \/ call.latitude = NonNumeric
    \/ call.longitude < 0 - 180000000
    \/ call.longitude > 180000000
    \/ call.latitude < 0 - 90000000
    \/ call.latitude > 90000000
    \/ (call.accuracy # <<>> /\ call.accuracy[1] <= 0)

ValidationMessages ==
    { "User ID is required",
      "Coordinates must be numbers",
      "Invalid longitude: must be between -180 and 180",
      "Invalid latitude: must be between -90 and 90",
      "Accuracy must be a positive number" }

\* C12: an updateUserLocation call with an empty user id, a non-numeric
\* coordinate, a longitude outside [-180, 180], a latitude outside [-90, 90]
\* or a non-positive accuracy is over at the step at which it begins: it
\* throws a validation error, no store call was made for it, and the Geo
\* Index, the metadata and the Profile Store are as they were.
C12_InvalidUpdateRejectedBeforeStores ==
    [][\A c \in Calls :
          (Begins(c, "update") /\ InvalidUpdateArgs(calls'[c])) =>
              /\ calls'[c].pc = "done"
              /\ calls'[c].result.outcome = "thrown"
              /\ calls'[c].result.text \in ValidationMessages
              /\ calls'[c].failedCall = ""
              /\ UNCHANGED <<geo, meta, metaTTL, profile>>]_vars

\* an update with accuracy 0 was rejected for a user that holds a position,
\* while another update for the same user is between its two writes
C12_Witness ==
    \E c, d \in Calls :
        /\ c # d
        /\ calls[c].op = "update" /\ calls[c].pc = "done"
        /\ calls[c].accuracy = <<0>>
        /\ calls[c].userId \in DOMAIN geo
        /\ calls[c].result.text = "Accuracy must be a positive number"
        /\ At(d, "update", "updateLocation")
        /\ calls[d].userId = calls[c].userId

-----------------------------------------------------------------------------
(* C13: valid input at the edge of the coordinate domain                   *)

\* C13: an updateUserLocation call for an existing user with longitude in
\* [-180, 180], latitude in [-90, 90] and a valid accuracy, none of whose
\* store calls failed, returns success.
C13_ValidInputSucceeds ==
    \A c \in Calls :
        ( /\ calls[c].op = "update"
          /\ calls[c].pc = "done"
          /\ calls[c].userId \in DOMAIN profile
          /\ ~ InvalidUpdateArgs(calls[c])
          /\ calls[c].failedCall = "" ) =>
            /\ calls[c].result.outcome = "returned"
            /\ calls[c].result.success

-----------------------------------------------------------------------------
(* C14: radius and limit ranges of getNearbyUsers                          *)

\* the ranges C14 states; radiusKm is in 0.01 km
InStatedRanges(call) ==
    /\ 0 < call.radiusKm /\ call.radiusKm <= 1000 * 100
    /\ 0 < call.limit /\ call.limit <= 1000

\* C14: a getNearbyUsers call with a valid user id passes validation (goes
\* on to its first store call) exactly when 0 < radiusKm <= 1000 and
\* 0 < limit <= 1000; otherwise it throws at the step at which it begins,
\* with no store call.
C14_AcceptsExactlyTheRanges ==
    [][\A c \in Calls :
          (Begins(c, "nearby") /\ calls'[c].userId \notin BlankIds) =>
              IF InStatedRanges(calls'[c])

              THEN calls'[c].pc = "findById"
              ELSE /\ calls'[c].pc = "done"
                   /\ calls'[c].result.outcome = "thrown"
                   /\ calls'[c].failedCall = ""]_vars

-----------------------------------------------------------------------------
(* C15: the metadata written with a position                               *)

\* C15: while the metadata hash written by a successful updateUserLocation
\* call is in place, it has an accuracy field, an update timestamp and a
\* source field.
C15_MetadataCarriesAccuracyAndSource ==
    \A c \in Calls :
        ( /\ calls[c].op = "update"
          /\ calls[c].pc = "done"
          /\ calls[c].result.success
          /\ calls[c].interfered = {}
          /\ calls[c].userId \in DOMAIN meta ) =>
            /\ "lastUpdate" \in DOMAIN meta[calls[c].userId]
            /\ "accuracy" \in DOMAIN meta[calls[c].userId]
            /\ "source" \in DOMAIN meta[calls[c].userId]

-----------------------------------------------------------------------------
(* The geo scan at the edge of the radius: getNearbyUsers calls in slot c1 *)
(* against stores in which user1 and user2 hold positions about one        *)
(* kilometre apart                                                         *)

\* longitudes user2 last reported (latitude 0): with user1 at its home
\* position they put the two stored positions 993 m to 1007 m apart
ScanLongitudeArgs == {12350, 12368, 12386, 12404, 12422, 12440, 12458, 12476}

ScanPosition(userId, longitude) ==
    IF userId = "user2" THEN obfuscateCoordinates("user2", longitude, 0)
    ELSE HomePosition(userId)

InitScan ==
    /\ now = 0
    /\ \E longitude \in ScanLongitudeArgs :
        LET located == {"user1", "user2"}
        IN  /\ geo = [u \in located |-> ScanPosition(u, longitude)]
            /\ meta = [u \in located |->
                          TTLMetadata(ScanPosition(u, longitude).longitude,
                                      ScanPosition(u, longitude).latitude)]
            /\ metaTTL = [u \in located |-> LocationTTL]
            /\ profile = [u \in ProfileIds |->
                            [isPubliclyVisible |-> TRUE,
                             publicRadiusKm |-> HomeRadius(u),
                             lastKnownLocation |->
                                IF u \in located
                                THEN <<ScanPosition(u, longitude)>> ELSE <<>>]]
            /\ entryState = [u \in IdArgs |->
                                IF u \in located THEN "written" ELSE "absent"]
    /\ calls = [c \in Calls |-> IdleCall]
    /\ started = 0
    /\ OtherStoresIdle
    /\ obfIn = ObfIdle
    /\ obfOut = <<>>

NearbyStoreCall(c, fail) ==
    \/ NearbyFindById(c, fail)
    \/ NearbyGetUserLocation(c, fail)
    \/ NearbyZRange(c, fail)
    \/ NearbyScan(c, fail)
    \/ NearbyFindPublic(c, fail)

NextScan ==
    \/ \E u \in {"user1", "user2"}, r \in RadiusArgs, l \in LimitArgs :
            calls["c1"].pc = "idle" /\ StartNearby("c1", u, r, l)
    \/ \E fail \in BOOLEAN : NearbyStoreCall("c1", fail)

SpecScan == InitScan /\ [][NextScan]_vars

-----------------------------------------------------------------------------
(* C16: the radius boundary of the geo scan                                *)

\* the candidates of call's scan whose distance from the requester's
\* position, in whole metres, is at most the radius (radiusKm is in 0.01 km)
WithinRadiusInMetres(call) ==
    {m \in (DOMAIN geo) \ {call.userId} :
        MetresBetween(call.userLocation[1].longitude,
                      call.userLocation[1].latitude,
                      geo[m].longitude, geo[m].latitude)
            <= call.radiusKm * 10}

\* C16: a completed geo scan, none of whose store calls failed, holds
\* exactly the candidates whose distance in whole metres is at most
\* radiusKm: one at exactly radiusKm is in, one a metre beyond is out.
C16_ScanKeepsExactlyWithinRadius ==
    \A c \in Calls :
        ( /\ calls[c].op = "nearby"
          /\ calls[c].failedCall = ""
          /\ \/ calls[c].pc = "findNearbyPublicUsers"
             \/ calls[c].pc = "done" /\ calls[c].result.success ) =>
            {calls[c].nearbyUsers[i].member : i \in DOMAIN calls[c].nearbyUsers}
                = WithinRadiusInMetres(calls[c])

-----------------------------------------------------------------------------
(* C17: what a getNearbyUsers result discloses                             *)

CoordinateFields == {"longitude", "latitude", "lastKnownLocation", "coordinates"}

\* C17: every entry of the users list of a getNearbyUsers result has exactly
\* the fields userId, name, email and distanceKm, and neither the result nor
\* an entry has a longitude, latitude or lastKnownLocation field.
C17_EntriesCarryNoCoordinates ==
    \A c \in Calls :
        (calls[c].op = "nearby" /\ calls[c].pc = "done") =>
            /\ (DOMAIN calls[c].result) \cap CoordinateFields = {}
            /\ \A i \in DOMAIN calls[c].result.users :
                  DOMAIN calls[c].result.users[i]
                      = {"userId", "name", "email", "distanceKm"}

\* a result with two entries
C17_Witness ==
    \E c \in Calls :
        /\ calls[c].op = "nearby" /\ calls[c].pc = "done"
        /\ calls[c].result.success
        /\ Len(calls[c].result.users) = 2
        /\ calls[c].result.users[1].userId # calls[c].result.users[2].userId

-----------------------------------------------------------------------------
(* C18: the requester is not in its own result                             *)

\* C18: no entry of the users list of a getNearbyUsers(r, ...) result has
\* userId = r.
C18_RequesterNotInOwnResult ==
    \A c \in Calls :
        (calls[c].op = "nearby" /\ calls[c].pc = "done") =>
            \A i \in DOMAIN calls[c].result.users :
                calls[c].result.users[i].userId # calls[c].userId

\* a result with entries for a requester that is public and whose positions
\* in both stores are within the radius of the query point
C18_Witness ==
    \E c \in Calls :
        /\ calls[c].op = "nearby" /\ calls[c].pc = "done"
        /\ calls[c].result.users # <<>>
        /\ calls[c].userId \in DOMAIN geo
        /\ geo[calls[c].userId] = calls[c].userLocation[1]
        /\ profile[calls[c].userId].isPubliclyVisible
        /\ profile[calls[c].userId].lastKnownLocation = calls[c].userLocation

-----------------------------------------------------------------------------
(* C19: the two not-found outcomes of getNearbyUsers                       *)

\* call slot c takes the step of its store call pc, and the call is served
Served(c, op, pc) ==
    /\ At(c, op, pc)
    /\ calls'[c] # calls[c]
    /\ calls'[c].failedCall = ""

ThrownWith(call, text) ==
    /\ call.pc = "done"
    /\ call.result.outcome = "thrown"
    /\ call.result.text = text

\* C19: when the profile lookup of a getNearbyUsers call finds no document
\* the call ends there with 'User not found', having read no position (and
\* with a document it does not end with that error); when the document
\* exists and the Geo Index has no position for the requester, the call ends
\* at the position read with 'User location not found', having run neither
\* the geo scan nor the profile query.
C19_NotFoundOutcomesInOrder ==
    [][\A c \in Calls :
          /\ Served(c, "nearby", "findById") =>
                /\ ThrownWith(calls'[c], "User not found")
                      <=> calls[c].userId \notin DOMAIN profile
                /\ calls[c].userId \notin DOMAIN profile =>
                      /\ calls'[c].userLocation = <<>>
                      /\ calls'[c].nearbyUsers = <<>>
                /\ calls[c].userId \in DOMAIN profile =>
                      calls'[c].pc = "getUserLocation"
          /\ ( /\ Served(c, "nearby", "getUserLocation")
               /\ calls[c].userId \notin DOMAIN geo ) =>
                /\ calls[c].user # <<>>
                /\ ThrownWith(calls'[c], "User location not found")
                /\ calls'[c].allMembers = <<>>
                /\ calls'[c].nearbyUsers = <<>>
                /\ calls'[c].publicUsers = {}]_vars

\* the second outcome: a call for a user with a document and no position,
\* while other users hold positions

C19_Witness ==
    \E c \in Calls :
        /\ calls[c].op = "nearby"
        /\ ThrownWith(calls[c], "User location not found")
        /\ calls[c].failedCall = ""
        /\ calls[c].userId \in DOMAIN profile
        /\ calls[c].userId \notin DOMAIN geo
        /\ DOMAIN geo # {}

-----------------------------------------------------------------------------
(* Removal of a position: removeUserLocation for user1 in slot c2; in slot *)
(* c1, before, beside or after it, a location update for user1 or a query  *)
(* of user2 that can see user1                                             *)

\* the user whose position is removed, and the one who asks about it
RemovedUser == "user1"

AskingUser == "user2"

InitRemove ==
    /\ Quiescent({RemovedUser, AskingUser}, {RemovedUser, AskingUser})
    /\ OtherStoresIdle
    /\ obfIn = ObfIdle
    /\ obfOut = <<>>

ValidateStoreCall(c, fail) ==
    \/ ValidateFindById(c, fail)
    \/ DistanceGeoPos1(c, fail)
    \/ DistanceGeoPos2(c, fail)

NextRemove ==
    \/ ~ InFlight("c2") /\ StartRemove("c2", RemovedUser)
    \/ \E a \in {<<>>, <<10>>} :
            ~ InFlight("c1") /\ StartUpdate("c1", RemovedUser, 12000, 0, a)
    \/ \E l \in {1, 2} :
            ~ InFlight("c1") /\ StartNearby("c1", AskingUser, 3 * 100, l)
    \/ ~ InFlight("c1") /\ StartValidate("c1", AskingUser, RemovedUser)
    \/ \E fail \in BOOLEAN : RemoveStoreCall("c2", fail)
    \/ \E fail \in BOOLEAN : UpdateStoreCall("c1", fail)
    \/ \E fail \in BOOLEAN : NearbyStoreCall("c1", fail)
    \/ \E fail \in BOOLEAN : ValidateStoreCall("c1", fail)

SpecRemove == InitRemove /\ [][NextRemove]_vars

-----------------------------------------------------------------------------
(* C20: what a completed removal guarantees                                *)

\* getUserLocation(u) returns null and u's metadata record is empty
NoPositionHeld(u) == geoPos(u) = <<>> /\ u \notin DOMAIN meta

\* a query that started while the removal of an id stood, with no location
\* update for the id started since, does not show the id: a getNearbyUsers
\* result has no entry for it, a validateLocationAccess for it as target is
\* not allowed
QueriesHideRemoved ==
    \A c \in Calls :
        /\ (calls[c].op = "nearby" /\ calls[c].pc = "done") =>
              \A i \in DOMAIN calls[c].result.users :
                  calls[c].result.users[i].userId \notin calls[c].interfered
        /\ ( /\ calls[c].op = "validate" /\ calls[c].pc = "done"
             /\ calls[c].userId # calls[c].userId2
             /\ calls[c].userId2 \in calls[c].interfered ) =>
              ~ calls[c].result.allowed

\* C20 as stated: after removeUserLocation(u) has completed, and until a
\* location update for u starts, getUserLocation(u) returns null, u's
\* metadata record is empty, u is in no getNearbyUsers result and
\* validateLocationAccess(r, u) is not allowed for r # u.
C20_RemovedUntilNextUpdateStarts ==
    /\ \A c \in Calls :
          ( /\ calls[c].op = "remove" /\ calls[c].pc = "done"
            /\ calls[c].result.success
            /\ "update" \notin calls[c].interfered ) =>
              NoPositionHeld(calls[c].userId)
    /\ QueriesHideRemoved

\* C20, for removals beside which no location update is in flight: after
\* removeUserLocation(u) has completed with no updateUserLocation(u) call in
\* flight at any moment of the removal, and until a location update for u
\* starts, getUserLocation(u) returns null, u's metadata record is empty,
\* u is in no getNearbyUsers result and validateLocationAccess(r, u) is not
\* allowed for r # u.
C20_RemovedWhenNoUpdateInFlight ==
    /\ \A c \in Calls :
          RemovalStands(calls[c]) => NoPositionHeld(calls[c].userId)
    /\ QueriesHideRemoved

\* a removal stands, the Profile Store still holds the removed user's
\* lastKnownLocation, and a getNearbyUsers call of a user within range that
\* started after the removal has returned without it
C20_Witness ==
    /\ RemovalStands(calls["c2"])
    /\ profile[calls["c2"].userId].lastKnownLocation # <<>>
    /\ profile[calls["c2"].userId].isPubliclyVisible
    /\ calls["c1"].op = "nearby" /\ calls["c1"].pc = "done"
    /\ calls["c1"].result.success
    /\ calls["c1"].failedCall = ""
    /\ calls["c2"].userId \in calls["c1"].interfered

-----------------------------------------------------------------------------
(* C21: getDistanceBetweenUsers                                            *)

\* C21: a getDistanceBetweenUsers(u1, u2) call whose store calls were served
\* reads u1's position and then u2's; it reports failure with 'One or both
\* users do not have location data' exactly when the Geo Index had no
\* position for u1 at the first read or none for u2 at the second;
\* otherwise it returns success with the distance of the two positions, and
\* the result has no coordinate field.
C21_DistanceFailsIffPositionMissing ==
    [][\A c \in Calls :
          /\ Served(c, "distance", "geoPos1") =>
                calls'[c].userLocation = geoPos(calls[c].userId)
          /\ Served(c, "distance", "geoPos2") =>
                LET call    == calls'[c]
                    missing == \/ calls[c].userLocation = <<>>
                               \/ calls[c].userId2 \notin DOMAIN geo
                IN  /\ call.pc = "done"
                    /\ call.result.outcome = "returned"
                    /\ (DOMAIN call.result) \cap CoordinateFields = {}
                    /\ call.result.users = <<>>
                    /\ missing =>
                          /\ ~ call.result.success
                          /\ call.result.distanceKm = <<>>
                          /\ call.result.text
                                = "One or both users do not have location data"
                    /\ ~ missing =>
                          /\ call.result.success
                          /\ call.result.distanceKm
                                = <<calculateDistance(
                                        calls[c].userLocation[1].longitude,
                                        calls[c].userLocation[1].latitude,
                                        geo[calls[c].userId2].longitude,
                                        geo[calls[c].userId2].latitude)>>]_vars

\* a reported failure for two users of which only the second has no
\* position, its removal having completed while the call was in flight
C21_Witness ==
    \E c \in Calls :
        /\ calls[c].op = "distance" /\ calls[c].pc = "done"
        /\ calls[c].failedCall = ""
        /\ ~ calls[c].result.success
        /\ calls[c].userLocation # <<>>
        /\ calls[c].userId2 \in ProfileIds
        /\ calls[c].userId2 \notin DOMAIN geo
        /\ \E d \in Calls : RemovalStands(calls[d]) /\ calls[d].userId = calls[c].userId2

-----------------------------------------------------------------------------
(* Privacy fields of the Profile: updateLocationPrivacy and                *)
(* AuthService.updateProfile calls for a user with a document, an id       *)
(* without one and the empty id, running concurrently                      *)

InitPrivacy ==
    /\ \E visible \in SUBSET {"user1"} : Quiescent({"user1"}, visible)
    /\ OtherStoresIdle
    /\ obfIn = ObfIdle
    /\ obfOut = <<>>

NextPrivacy ==
    \/ \E c \in Calls, u \in WriterIds, st \in SettingsArgs :
            FreeSlot(c) /\ StartPrivacy(c, u, st)
    \/ \E c \in Calls, u \in WriterIds, pd \in ProfileDataArgs :
            FreeSlot(c) /\ StartProfile(c, u, pd)
    \/ \E c \in Calls, fail \in BOOLEAN : PrivacyWrite(c, fail)
    \/ \E c \in Calls, fail \in BOOLEAN : ProfileWrite(c, fail)

SpecPrivacy == InitPrivacy /\ [][NextPrivacy]_vars

-----------------------------------------------------------------------------
(* C22: the range of publicRadiusKm                                        *)

RadiusInRange(doc) == 1 <= doc.publicRadiusKm /\ doc.publicRadiusKm <= 1000

\* the call carries a publicRadiusKm outside [1, 1000]
CarriesRadiusOutOfRange(call) ==
    /\ call.op \in {"privacy", "profile"}
    /\ call.settings[1].publicRadiusKm # <<>>
    /\ \/ call.settings[1].publicRadiusKm[1] < 1
       \/ call.settings[1].publicRadiusKm[1] > 1000

-----------------------------------------------------------------------------
(* C23: obfuscation is a function of its arguments                         *)

\* both records are updateUserLocation calls that have obfuscated the same
\* user id, longitude and latitude
SameObfuscationInputs(a, b) ==
    /\ a.op = "update" /\ b.op = "update"
    /\ a.obfuscated # <<>> /\ b.obfuscated # <<>>
    /\ a.userId = b.userId
    /\ a.longitude = b.longitude
    /\ a.latitude = b.latitude

-----------------------------------------------------------------------------
(* C24: offsets of distinct seeds                                          *)

SeedArgs == [hi : SeedHiArgs, lo : SeedLoArgs]

\* C24: for a fixed (longitude, latitude), the outputs for any two distinct
\* seeds differ in longitude and differ in latitude.
C24_DistinctSeedsDistinctOutputs ==
    obfOut # <<>> =>
        \A seed \in SeedArgs \ {obfIn.seed} :
            LET other == ObfuscateWithSeed(seed, obfIn.longitude, obfIn.latitude)
            IN  /\ other.longitude # obfOut[1].longitude
                /\ other.latitude # obfOut[1].latitude

-----------------------------------------------------------------------------
(* Sessions: SessionRedis calls for one user, two at a time, and TTL       *)
(* expiry.  Initially the user has no session, or one that a completed     *)
(* createSession with the default TTL wrote at time 0.                     *)

LiveSession(ttl) ==
    [fields |-> FieldsWritten("createSession"), expiresAt |-> <<ttl>>]

InitSession ==
    /\ Quiescent({}, {})
    /\ obfIn = ObfIdle
    /\ obfOut = <<>>
    /\ ChannelsIdle
    /\ ConnectionIdle
    /\ sessionOps = [c \in Calls |-> IdleSessionOp]
    /\ ended = {}
    /\ \E live \in SUBSET SessionUsers :
        /\ sessions = [u \in live |-> LiveSession(2 * TickSeconds)]
        /\ activeSessions = live
        /\ countdown = [u \in SessionUsers |->
                            IF u \in live THEN <<2 * TickSeconds>> ELSE <<>>]

\* the ttlSeconds arguments of an operation (0: it takes none)
TtlArgsOf(op) ==
    IF op \in {"createSession", "refreshSession"} THEN TtlArgs ELSE {0}

SessionStoreCall(c, fail) ==
    \/ SessionExists(c, fail)
    \/ SessionHSet(c, fail)
    \/ SessionExpire(c, fail)
    \/ SessionSAdd(c, fail)
    \/ SessionSRem(c, fail)
    \/ SessionDel(c, fail)

NextSession ==
    \/ \E c \in Calls, op \in SessionOpNames, u \in SessionUsers :
            \E ttl \in TtlArgsOf(op) : StartSessionOp(c, op, u, ttl)
    \/ \E c \in Calls, fail \in BOOLEAN : SessionStoreCall(c, fail)
    \/ SessionTick

SpecSession == InitSession /\ [][NextSession]_vars

-----------------------------------------------------------------------------
(* C25, C26: validity of a session                                         *)

\* C25: once deleteSession(u) has completed and no session operation for u
\* is in flight, isSessionValid(u) reports false until a createSession(u)
\* starts: updateSession, refreshSession and setSessionField never bring a
\* session record into existence.
C25_NoSessionAfterDelete ==
    \A u \in SessionUsers :
        (u \in ended /\ ~ OpInFlightFor(u, SessionOpNames)) =>
            ~ SessionKeyExists(u)

\* no session call of the behaviour met a store error
NoSessionCallThrew == \A c \in Calls : sessionOps[c].result # "thrown"

\* C26: with no createSession or refreshSession for u in flight, a session
\* whose latest createSession / refreshSession set a TTL is reported valid
\* exactly while that TTL has not elapsed (deleteSession ends the session
\* and its countdown).  Stated for behaviours without store errors.
C26_ValidExactlyUntilTtlElapses ==
    \A u \in SessionUsers :
        ( /\ countdown[u] # <<>>
          /\ NoSessionCallThrew
          /\ ~ OpInFlightFor(u, {"createSession", "refreshSession"}) ) =>
            (SessionKeyExists(u) <=> now < countdown[u][1])

-----------------------------------------------------------------------------
(* Token verification: verifyToken calls beside createSession and          *)
(* deleteSession calls for the same user and TTL expiry                    *)

VerifyOpNames == {"createSession", "deleteSession", "isSessionValid"}

NextVerify ==
    \/ \E c \in Calls, token \in TokenArgs : StartVerify(c, token)
    \/ \E c \in Calls, fail \in BOOLEAN : VerifyFindById(c, fail)
    \/ \E c \in Calls, fail \in BOOLEAN, rethrown \in BOOLEAN :
            VerifyIsSessionValid(c, fail, rethrown)
    \/ \E c \in Calls, op \in VerifyOpNames, u \in SessionUsers :
            \E ttl \in TtlArgsOf(op) : StartSessionOp(c, op, u, ttl)
    \/ \E c \in Calls, fail \in BOOLEAN : SessionStoreCall(c, fail)
    \/ SessionTick

SpecVerify == InitSession /\ [][NextVerify]_vars

-----------------------------------------------------------------------------
(* C27: the result of verifyToken                                          *)

VerifyDone(call) == call.op = "verifyToken" /\ call.pc = "done"

\* C27: verifyToken returns valid = true exactly when the token verified,
\* findById returned a user and the session store reported a valid
\* session; in every other case, a thrown verification or store error
\* included, it returns valid = false with an error text; it never throws.
C27_ValidIffTokenUserAndSession ==
    \A c \in Calls :
        VerifyDone(sessionOps[c]) =>
            LET call == sessionOps[c]
            IN  /\ call.result # "thrown"
                /\ call.result # ""
                /\ call.result = "valid" <=>
                      /\ call.decoded # <<>>
                      /\ call.user # <<>>
                      /\ call.isSessionValid = <<TRUE>>

\* a token that verifies for an existing user was refused because the
\* session had been deleted while the call was in flight
C27_Witness ==
    /\ VerifyDone(sessionOps["c1"])
    /\ sessionOps["c1"].user # <<>>
    /\ sessionOps["c1"].isSessionValid = <<FALSE>>
    /\ sessionOps["c1"].result = "Session expired"
    /\ sessionOps["c2"].op = "deleteSession"
    /\ sessionOps["c2"].result = "1"

-----------------------------------------------------------------------------
(* Channels: ChannelRepository calls on one channel, two at a time.        *)
(* Initially there is no channel, or the one that create left with owner   *)
(* user1 and the member user2.                                             *)

InitChannel ==
    /\ Quiescent({}, {})
    /\ obfIn = ObfIdle
    /\ obfOut = <<>>
    /\ SessionsIdle
    /\ ConnectionIdle
    /\ channelOps = [c \in Calls |-> IdleChannelOp]
    /\ channel \in { <<>>,
                     <<[owner |-> "user1", members |-> {"user1", "user2"}, v |-> 0,
                        maxMembers |-> MaxMembers]>> }

NextChannel ==
    \/ \E c \in Calls, channelData \in CreateArgs : StartCreate(c, channelData)
    \/ \E c \in Calls, op \in ChannelOpNames, u \in ChannelUsers :
            \E new \in (IF op = "transferOwnership" THEN ChannelUsers ELSE {""}) :
                StartChannelOp(c, op, u, new)
    \/ \E c \in Calls, fail \in BOOLEAN : ChannelFindById(c, fail)
    \/ \E c \in Calls, fail \in BOOLEAN : ChannelSave(c, fail)

SpecChannel == InitChannel /\ [][NextChannel]_vars

\* C28: in every reachable state of a channel the owner is one of its
\* members, whatever create, addMember, removeMember and transferOwnership
\* calls have run.
C28_OwnerIsMember ==
    channel # <<>> => channel[1].owner \in channel[1].members

-----------------------------------------------------------------------------
(* Redis connection: connectRedis and disconnectRedis calls, two at a      *)
(* time.  Initially no client has been created, or a completed             *)
(* connectRedis has left one connected.                                    *)

InitConn ==
    /\ Quiescent({}, {})
    /\ obfIn = ObfIdle
    /\ obfOut = <<>>
    /\ SessionsIdle
    /\ ChannelsIdle
    /\ MongoIdle
    /\ connOps = [c \in Calls |-> IdleConnOp]
    /\ \/ redisClient = <<>> /\ clients = [i \in {} |-> "closed"]
       \/ redisClient = <<1>> /\ clients = [i \in {1} |-> "ready"]

NextConn ==
    \/ \E c \in Calls : StartConnect(c)
    \/ \E c \in Calls, fail \in BOOLEAN : ConnectCompletes(c, fail)
    \/ \E c \in Calls : StartDisconnect(c)
    \/ \E c \in Calls, fail \in BOOLEAN : QuitCompletes(c, fail)

SpecConn == InitConn /\ [][NextConn]_vars

ConnectReturned(call) ==
    call.op = "connectRedis" /\ call.pc = "done" /\ ~ call.threw

\* C29: at most one Redis client is open at a time, and every connectRedis
\* call that returns hands out a client: the one it found open or the one
\* it created.
C29_OneClientAtATime ==
    /\ Cardinality(OpenClients) <= 1
    /\ \A c \in Calls :
          ConnectReturned(connOps[c]) =>
              /\ connOps[c].returned # <<>>
              /\ connOps[c].client # 0 => connOps[c].returned = <<connOps[c].client>>

-----------------------------------------------------------------------------
(* C30: order of the users list                                            *)

\* C30: the users list that getNearbyUsers returns is ordered by
\* non-decreasing distanceKm.
C30_UsersOrderedByDistance ==
    \A c \in Calls :
        (calls[c].op = "nearby" /\ calls[c].pc = "done") =>
            LET users == calls[c].result.users
            IN  \A i \in 1 .. (Len(users) - 1) :
                    users[i].distanceKm <= users[i + 1].distanceKm

\* a returned list of two users at different distances, the nearer one
\* being the later member of the geo set's scan
C30_Witness ==
    \E c \in Calls :
        /\ calls[c].op = "nearby" /\ calls[c].pc = "done"
        /\ Len(calls[c].result.users) = 2
        /\ calls[c].result.users[1].userId = "user2"
        /\ calls[c].result.users[2].userId = "user1"
        /\ calls[c].result.users[1].distanceKm < calls[c].result.users[2].distanceKm

-----------------------------------------------------------------------------
(* C31: updateUserLocation for an id without a profile                     *)

\* ids that have no user document
NoProfile(userId) == userId \notin DOMAIN profile

\* C31: an updateUserLocation call whose profile lookup finds no document
\* ends there with 'User not found'; no step of a call for such an id
\* changes the Geo Index, the metadata or a Profile; and the Geo Index
\* never holds an entry for an id without a profile.
C31_NoProfileNoWrite ==
    /\ [](\A u \in IdArgs : NoProfile(u) => u \notin DOMAIN geo /\ u \notin DOMAIN meta)
    /\ [][\A c \in Calls :
             /\ ( Served(c, "update", "findById") /\ NoProfile(calls[c].userId) )
                   => ThrownWith(calls'[c], "User not found")
             /\ ( /\ calls'[c] # calls[c]
                  /\ calls'[c].op = "update"
                  /\ NoProfile(calls'[c].userId) )
                   => UNCHANGED <<geo, meta, metaTTL, profile>>]_vars

\* an update for the id without a document ended with 'User not found'
\* while an update for user1 had written the Geo Index
C31_Witness ==
    \E c, d \in Calls :
        /\ calls[c].op = "update" /\ calls[c].userId = UnknownId
        /\ ThrownWith(calls[c], "User not found")
        /\ calls[d].op = "update" /\ calls[d].userId = "user1"
        /\ calls[d].pc = "hSet"
        /\ UnknownId \notin DOMAIN geo

-----------------------------------------------------------------------------
\* LocationRepository.updateUserLocation(userId, longitude, latitude,
\* ttlSeconds): the repository-level write, which goes through
\* LocationRedis.addLocationWithMetadata.

\* the ttlSeconds arguments: a short TTL, the default, and two invalid ones
RepoTtlArgs == {TickSeconds, LocationTTL, 0, 86400 * 30 + 1}

RepoUser == "user1"

\* lines 161-168: _validateUserId, _validateCoordinates, _validateTTL
StartRepoUpdate(c, userId, longitude, latitude, ttlSeconds) ==
    /\ CanStart(c)
    /\ LET call == [IdleCall EXCEPT !.op = "repoUpdate", !.userId = userId,
                        !.longitude = longitude, !.latitude = latitude,
                        !.ttlSeconds = ttlSeconds]
           err  == FirstError(<<validateUserId(userId),
                                validateCoordinates(longitude, latitude),
                                validateTTL(ttlSeconds)>>)
       IN  calls' = IF err # ""
                    THEN [calls EXCEPT ![c] = Thrown(call, err)]
                    ELSE [calls EXCEPT ![c] = [call EXCEPT !.pc = "geoAdd"]]
    /\ started' = started + 1
    /\ UNCHANGED <<otherStores, geo, meta, metaTTL, profile, now, entryState, obfIn, obfOut>>

\* LocationRedis.addLocationWithMetadata: this.addLocation (client.geoAdd)
RepoGeoAdd(c, fail) ==
    /\ At(c, "repoUpdate", "geoAdd")
    /\ LET call == calls[c]
       IN  IF fail
           THEN /\ calls' = [calls EXCEPT ![c] = StoreThrown(call, "geoAdd")]
                /\ UNCHANGED <<geo, entryState>>
           ELSE /\ geo' = Put(geo, call.userId,
                              [longitude |-> call.longitude,
                               latitude |-> call.latitude])
                /\ entryState' = [entryState EXCEPT ![call.userId] = "written"]
                /\ calls' = [calls EXCEPT ![c] = [call EXCEPT !.pc = "hSet"]]
    /\ UNCHANGED <<otherStores, meta, metaTTL, profile, now, started, obfIn, obfOut>>

\* LocationRedis.addLocationWithMetadata: client.hSet on 'location:<id>',
\* then return true.  No client.expire follows: the expiry time of the key,
\* or its absence, stays what it was.
RepoHSet(c, fail) ==
    /\ At(c, "repoUpdate", "hSet")
    /\ LET call == calls[c]
       IN  IF fail
           THEN /\ calls' = [calls EXCEPT ![c] = StoreThrown(call, "hSet")]
                /\ UNCHANGED meta
           ELSE /\ meta' = Put(meta, call.userId,
                               TTLMetadata(call.longitude, call.latitude))
                /\ calls' = [calls EXCEPT ![c] =
                                Returned(call, [NoResult EXCEPT
                                                    !.success = TRUE])]
    /\ UNCHANGED <<otherStores, geo, metaTTL, profile, now, entryState, started, obfIn, obfOut>>

\* the stores before the repository is called: RepoUser has a record written
\* with the default TTL, or none
InitRepo ==
    /\ \E located \in SUBSET {RepoUser} : Quiescent(located, {})
    /\ OtherStoresIdle
    /\ obfIn = ObfIdle
    /\ obfOut = <<>>

NextRepo ==
    \/ \E c \in Calls, userId \in {RepoUser, ""}, longitude \in {0, 12000},
          ttlSeconds \in RepoTtlArgs :
            FreeSlot(c) /\ StartRepoUpdate(c, userId, longitude, 0, ttlSeconds)
    \/ \E c \in Calls, fail \in BOOLEAN : RepoGeoAdd(c, fail)
    \/ \E c \in Calls, fail \in BOOLEAN : RepoHSet(c, fail)
    \/ Tick

SpecRepo == InitRepo /\ [][NextRepo]_vars

\* client.ttl(metadataKey) as getLocationTTL reads it: the seconds left, -1
\* for a key without expiry, -2 for a missing key
RemainingTTL(userId) ==
    IF userId \notin DOMAIN meta THEN 0 - 2
    ELSE IF userId \notin DOMAIN metaTTL THEN 0 - 1
         ELSE metaTTL[userId] - now

\* C32: when the repository-level updateUserLocation(u, lon, lat,
\* ttlSeconds) succeeds, the remaining TTL of u's location record is
\* ttlSeconds, whether the record had a shorter TTL, or none, before.
C32_UpdateRefreshesTtl ==
    [][\A c \in Calls :
            Returns(c, "repoUpdate")
                => RemainingTTL(calls[c].userId)' = calls[c].ttlSeconds]_vars

-----------------------------------------------------------------------------
(* C33: what removeUserLocation and updateLocationPrivacy leave alone      *)

\* removeUserLocation and updateLocationPrivacy calls for located users, an
\* id without document and the empty id, running concurrently
InitFrame ==
    /\ \E visible \in SUBSET {"user1"} : Quiescent({"user1", "user2"}, visible)
    /\ OtherStoresIdle
    /\ obfIn = ObfIdle
    /\ obfOut = <<>>

NextFrame ==
    \/ \E c \in Calls, u \in WriterIds : FreeSlot(c) /\ StartRemove(c, u)
    \/ \E c \in Calls, u \in WriterIds, st \in SettingsArgs :
            FreeSlot(c) /\ StartPrivacy(c, u, st)
    \/ \E c \in Calls, fail \in BOOLEAN : RemoveStoreCall(c, fail)
    \/ \E c \in Calls, fail \in BOOLEAN : PrivacyWrite(c, fail)

SpecFrame == InitFrame /\ [][NextFrame]_vars

\* the step belongs to a call of operation op
StepOf(c, op) == calls'[c] # calls[c] /\ calls'[c].op = op

\* the fields of a Profile other than the two privacy fields
SameLocationFields(userId) ==
    profile'[userId].lastKnownLocation = profile[userId].lastKnownLocation

\* C33: no step of removeUserLocation changes any Profile (lastKnownLocation,
\* isPubliclyVisible and publicRadiusKm included); a step of
\* updateLocationPrivacy changes at most isPubliclyVisible and publicRadiusKm
\* of the named profile: its lastKnownLocation, every Geo Index Entry and
\* every other profile stay as they were.
C33_RemoveAndPrivacyFrame ==
    [][\A c \in Calls :
        /\ StepOf(c, "remove") => UNCHANGED profile
        /\ StepOf(c, "privacy") =>
              /\ UNCHANGED <<geo, meta, metaTTL>>
              /\ DOMAIN profile' = DOMAIN profile
              /\ \A u \in DOMAIN profile :
                    /\ u # calls'[c].userId => profile'[u] = profile[u]
                    /\ SameLocationFields(u)]_vars

\* a removal and a privacy update for user1 have both succeeded: the Geo
\* Index Entry is gone, the privacy fields are the new ones, and the
\* profile still carries the position stored before
C33_Witness ==
    \E c, d \in Calls :
        /\ calls[c].op = "remove" /\ calls[c].pc = "done"
        /\ calls[c].result.outcome = "returned" /\ calls[c].userId = "user1"
        /\ calls[d].op = "privacy" /\ calls[d].pc = "done"
        /\ calls[d].result.outcome = "returned" /\ calls[d].userId = "user1"
        /\ calls[d].settings[1].publicRadiusKm = <<2>>
        /\ "user1" \notin DOMAIN geo /\ "user1" \notin DOMAIN meta
        /\ profile["user1"].publicRadiusKm = 2
        /\ profile["user1"].lastKnownLocation = <<HomePosition("user1")>>
        /\ "user2" \in DOMAIN geo

-----------------------------------------------------------------------------
(* C34: the 'active_sessions' set against the session keys, under          *)
(* createSession, deleteSession and TTL expiry only                        *)

\* SessionRedis.isUserOnline: client.sIsMember(activeSessionsKey, userId)
isUserOnline(userId) == userId \in activeSessions

\* SessionRedis.getActiveSessionCount: client.sCard(activeSessionsKey)
getActiveSessionCount == Cardinality(activeSessions)

OnlineStoreCall(c, fail) ==
    \/ SessionHSet(c, fail)
    \/ SessionExpire(c, fail)
    \/ SessionSAdd(c, fail)
    \/ SessionSRem(c, fail)
    \/ SessionDel(c, fail)

NextOnline ==
    \/ \E c \in Calls, u \in SessionUsers, ttl \in TtlArgs :
            StartSessionOp(c, "createSession", u, ttl)
    \/ \E c \in Calls, u \in SessionUsers :
            StartSessionOp(c, "deleteSession", u, 0)
    \/ \E c \in Calls, fail \in BOOLEAN : OnlineStoreCall(c, fail)
    \/ SessionTick

SpecOnline == InitSession /\ [][NextOnline]_vars

\* C34: with no session operation in flight and no store error, a user is
\* reported online exactly when the user's session key exists (unexpired),
\* and getActiveSessionCount() is the number of such users.
C34_OnlineIffLiveSession ==
    ( /\ NoSessionCallThrew
      /\ \A c \in Calls : ~ SessionInFlight(c) ) =>
        /\ \A u \in SessionUsers : isUserOnline(u) <=> SessionKeyExists(u)
        /\ getActiveSessionCount =
              Cardinality({u \in SessionUsers : SessionKeyExists(u)})

-----------------------------------------------------------------------------
(* C35: the cached MongoDB connection                                      *)

InitMongo ==
    /\ Quiescent({}, {})
    /\ OtherStoresIdle
    /\ obfIn = ObfIdle
    /\ obfOut = <<>>

NextMongo ==
    \/ \E c \in Calls : StartConnectDB(c)
    \/ \E c \in Calls, fail \in BOOLEAN : ConnectDBCompletes(c, fail)
    \/ \E c \in Calls : StartDisconnectDB(c)
    \/ \E c \in Calls, fail \in BOOLEAN : DisconnectDBCompletes(c, fail)
    \/ \E c \in Calls : getMongoConnection(c)
    \/ \E c \in Calls : resetConnections(c)
    \/ ConnectionLost

SpecMongo == InitMongo /\ [][NextMongo]_vars

\* C35: once a connectDB() has resolved, with no disconnectDB or
\* resetConnections since and the connection still up, getMongoConnection()
\* returns the connection and does not throw.
C35_ConnectedThenGetReturns ==
    [][\A c \in Calls :
        ( /\ established /\ readyState = 1
          /\ mongoOps'[c] # mongoOps[c]
          /\ mongoOps'[c].op = "getMongoConnection" ) =>
            /\ mongoOps'[c].threw = ""
            /\ mongoOps'[c].returned = mongoConnection]_vars

-----------------------------------------------------------------------------
(* C36: what getUserLocationStatus reports.  Writers (updateUserLocation,  *)
(* removeUserLocation) run in slot c1, the status call in slot c2, and the  *)
(* clock advances.                                                         *)

StatusUser == "user1"

StatusStoreCall(c, fail) ==
    \/ StatusFindById(c, fail)
    \/ StatusGetLocation(c, fail)
    \/ StatusGetMetadata(c, fail)

NextStatus ==
    \/ ~ InFlight("c1") /\ StartUpdate("c1", StatusUser, 12000, 0, <<>>)
    \/ ~ InFlight("c1") /\ StartRemove("c1", StatusUser)
    \/ \E u \in {StatusUser, UnknownId} : ~ InFlight("c2") /\ StartStatus("c2", u)
    \/ \E fail \in BOOLEAN : UpdateStoreCall("c1", fail)
    \/ \E fail \in BOOLEAN : RemoveStoreCall("c1", fail)
    \/ \E fail \in BOOLEAN : StatusStoreCall("c2", fail)
    \/ Tick

SpecStatus == InitUpdate /\ [][NextStatus]_vars

\* no writer call is in flight and none has been refused a store call, and
\* the position the status call read is still what the Geo Index holds
SettledFor(call) ==
    /\ ~ InFlight("c1")
    /\ calls["c1"].failedCall = ""
    /\ call.userLocation = getLocation(call.userId, FALSE)

\* C36: a getUserLocationStatus(u) that completes while no location
\* operation for u is in flight (and none was refused by a store) reports
\* hasLocation = true exactly when it reports a non-null lastUpdate: the
\* position and the metadata record of u exist together or not at all.
C36_PositionAndMetadataTogether ==
    [][( /\ Served("c2", "status", "getUserLocationMetadata")
         /\ SettledFor(calls["c2"]) ) =>
            ( calls'["c2"].result.hasLocation
                <=> calls'["c2"].result.lastUpdate # <<>> )]_vars

-----------------------------------------------------------------------------
(* C37: every session key has an expiry                                    *)

\* C37: with no createSession or refreshSession for u in flight (the calls
\* that write the key and then its TTL), a session key that exists has an
\* expiry time, whatever the interleaving of the session operations and
\* whichever store call fails.
C37_SessionKeyHasExpiry ==
    \A u \in SessionUsers :
        ( /\ SessionKeyExists(u)
          /\ ~ OpInFlightFor(u, {"createSession", "refreshSession"}) ) =>
            sessions[u].expiresAt # <<>>

-----------------------------------------------------------------------------
(* C38: the member count against maxMembers.  Initially there is no        *)
(* channel, or one with owner user1 and member user2 whose maxMembers is    *)
(* the schema default or was set to 2 or 3.                                *)

\* maxMembers arguments of updateChannelSettings: below the schema's
\* minimum, small values, above its maximum
MaxMembersArgs == {1, 2, 3, 501}

BatchAddArgs == { <<"user123">>, <<"user2", "user123">>, <<"user123", "user4">> }

InitCapacity ==
    /\ Quiescent({}, {})
    /\ obfIn = ObfIdle
    /\ obfOut = <<>>
    /\ SessionsIdle
    /\ ConnectionIdle
    /\ channelOps = [c \in Calls |-> IdleChannelOp]
    /\ \/ channel = <<>>
       \/ \E maxMembers \in {2, 3, MaxMembers} :
            channel = <<[owner |-> "user1", members |-> {"user1", "user2"},
                         v |-> 0, maxMembers |-> maxMembers]>>

NextCapacity ==
    \/ \E c \in Calls, channelData \in CreateArgs : StartCreate(c, channelData)
    \/ \E c \in Calls, op \in {"addMember", "removeMember"}, u \in ChannelUsers :
            StartChannelOp(c, op, u, "")
    \/ \E c \in Calls, userIds \in BatchAddArgs : StartBatchAdd(c, userIds)
    \/ \E c \in Calls, maxMembers \in MaxMembersArgs : StartSettings(c, maxMembers)
    \/ \E c \in Calls, fail \in BOOLEAN : ChannelFindById(c, fail)
    \/ \E c \in Calls, fail \in BOOLEAN : ChannelSave(c, fail)
    \/ \E c \in Calls, fail \in BOOLEAN : SettingsWrite(c, fail)

SpecCapacity == InitCapacity /\ [][NextCapacity]_vars

\* C38: a channel never has more members than its maxMembers, whatever
\* create, addMember, batchAddMembers, removeMember and
\* updateChannelSettings calls have run.
C38_MembersWithinLimit ==
    channel # <<>> => Cardinality(channel[1].members) <= channel[1].maxMembers

-----------------------------------------------------------------------------
(* LocationService.batchUpdateLocations.  The batch runs in slot c1; the   *)
(* updateUserLocation call it awaits for the current element runs in slot  *)
(* c2.  An element of the array is an object, written <<update>>, or null,  *)
(* written <<>>.                                                           *)

\* the elements: a valid update, the empty user id, an id without document,
\* a longitude that is not a number, and null
ElementArgs ==
    { <<[userId |-> "user1", longitude |-> 12000, latitude |-> 0]>>,
      <<[userId |-> "", longitude |-> 0, latitude |-> 0]>>,
      <<[userId |-> UnknownId, longitude |-> 0, latitude |-> 0]>>,
      <<[userId |-> "user1", longitude |-> NonNumeric, latitude |-> 0]>>,
      <<>> }

\* Longest array of a batch
MaxBatch == 2

LocationBatchArgs ==
    UNION {[1 .. n -> ElementArgs] : n \in 0 .. MaxBatch}

\* lines 316-320: the argument is an array; results = []
StartBatch(locationUpdates) ==
    /\ started = 0
    /\ \A c \in Calls : calls[c].pc = "idle"
    /\ calls' = [calls EXCEPT !["c1"] =
            [IdleCall EXCEPT !.op = "batch", !.pc = "loop",
                             !.locationUpdates = locationUpdates]]
    /\ UNCHANGED <<otherStores, geo, meta, metaTTL, profile, now, entryState, started, obfIn, obfOut>>

\* the element the loop is at
CurrentUpdate(call) == call.locationUpdates[Len(call.results) + 1]

\* lines 322-326 for an object: the fields are destructured and
\* updateUserLocation is called and awaited.  Lines 324, 327-333 for null:
\* the destructuring throws a TypeError, and in the catch block
\* update.userId throws another, which leaves the loop and is rethrown by
\* the outer catch block.
BatchElement ==
    /\ At("c1", "batch", "loop")
    /\ calls["c2"].pc = "idle"
    /\ Len(calls["c1"].results) < Len(calls["c1"].locationUpdates)
    /\ LET update == CurrentUpdate(calls["c1"])
       IN  IF update = <<>>
           THEN /\ calls' = [calls EXCEPT !["c1"] = Thrown(@,
                        "Cannot read properties of null (reading 'userId')")]
                /\ UNCHANGED started
           ELSE StartUpdate("c2", update[1].userId, update[1].longitude,
                            update[1].latitude, <<>>)
    /\ UNCHANGED <<otherStores, geo, meta, metaTTL, profile, now, entryState, obfIn, obfOut>>

\* lines 326-333: the awaited call has returned or thrown, and its outcome
\* is pushed on results
BatchCollect ==
    /\ At("c1", "batch", "loop")
    /\ calls["c2"].pc = "done"
    /\ calls' = [calls EXCEPT
            !["c1"].results = Append(@,
                [userId |-> calls["c2"].userId,
                 success |-> calls["c2"].result.outcome = "returned"]),
            !["c2"] = IdleCall]
    /\ UNCHANGED <<otherStores, geo, meta, metaTTL, profile, now, entryState, started, obfIn, obfOut>>

\* lines 336-342: the loop is over
BatchReturn ==
    /\ At("c1", "batch", "loop")
    /\ calls["c2"].pc = "idle"
    /\ Len(calls["c1"].results) = Len(calls["c1"].locationUpdates)
    /\ calls' = [calls EXCEPT !["c1"] =
            Returned(@, [NoResult EXCEPT !.success = TRUE])]
    /\ UNCHANGED <<otherStores, geo, meta, metaTTL, profile, now, entryState, started, obfIn, obfOut>>

InitBatch ==
    /\ \E located \in SUBSET {"user1"} : Quiescent(located, {})
    /\ OtherStoresIdle
    /\ obfIn = ObfIdle
    /\ obfOut = <<>>

NextBatch ==
    \/ \E locationUpdates \in LocationBatchArgs : StartBatch(locationUpdates)
    \/ BatchElement
    \/ \E fail \in BOOLEAN : UpdateStoreCall("c2", fail)
    \/ BatchCollect
    \/ BatchReturn

SpecBatch == InitBatch /\ [][NextBatch]_vars

\* results.filter(r => r.success).length and its complement
successCount(results) ==
    Cardinality({i \in 1 .. Len(results) : results[i].success})

errorCount(results) ==
    Cardinality({i \in 1 .. Len(results) : ~ results[i].success})

\* C39: a batchUpdateLocations call on an array never ends by throwing: it
\* returns success = true with one result per element, in the order of the
\* array (totalProcessed = the array's length = successCount + errorCount),
\* whatever elements fail.
C39_BatchNeverAborts ==
    LET call == calls["c1"]
    IN  (call.op = "batch" /\ call.pc = "done") =>
            /\ call.result.outcome = "returned"
            /\ call.result.success
            /\ Len(call.results) = Len(call.locationUpdates)
            /\ successCount(call.results) + errorCount(call.results)
                  = Len(call.locationUpdates)
            /\ \A i \in 1 .. Len(call.results) :
                  call.results[i].userId = call.locationUpdates[i][1].userId

====
